---- MODULE Spec2Model ----
(***************************************************************************)
(* Job registry, control plane and the four streaming workers of           *)
(* spcs_app/fastapi_app.py (FLUX Data Forge).                              *)
(*                                                                         *)
(* State: the wall clock in whole seconds (start_stream derives job ids    *)
(* from it), the registry dict active_streaming_jobs, the worker threads   *)
(* start_stream has started (each with its program counter), the           *)
(* process-wide snowflake_session and the import-time flag                 *)
(* BOTO3_AVAILABLE.  Beside them: the last reading of                     *)
(* generate_ami_reading(), the last SnowpipeStreamingConfig of             *)
(* spcs_app/snowpipe_streaming_impl.py and the rows of the STREAMING_JOBS  *)
(* tracking table.                                                         *)
(*                                                                         *)
(* Granularity: one action is one region under streaming_lock together     *)
(* with the lock-free I/O that precedes it in program order.  The I/O      *)
(* calls read and write nothing of the registry, and the locked regions    *)
(* nothing of the session, so the two commute with the other threads'      *)
(* steps and every interleaving of the finer steps is equivalent to one    *)
(* of these.  What the outside world answers to an I/O call (the probe,    *)
(* the session construction, the delivery, the S3 and stage set-up) is an  *)
(* input of the step, drawn with \E.                                       *)
(***************************************************************************)
EXTENDS Integers, Sequences, FiniteSets, TLC

VARIABLES clock, jobs, workers, sess, boto3, provider, lock, threads,
          reading, config, tracking, ingest

vars == <<clock, jobs, workers, sess, boto3, provider, lock, threads,
          reading, config, tracking, ingest>>

\* the statement-level view of get_valid_session() and of streaming_lock,
\* which the actions of the control plane and of the workers leave alone
stepwise == <<provider, lock, threads>>

\* the last reading generate_ami_reading() returned (or the last INSERT
\* built), the last SnowpipeStreamingConfig built, the rows of the
\* STREAMING_JOBS tracking table in the warehouse and the
\* SnowpipeStreamingClient, each followed in a specification of its own
aside == <<reading, config, tracking, ingest>>

-----------------------------------------------------------------------------
(* Bounds of the model *)

\* start_stream calls in one run (each starts one worker thread)
MaxStarts == 1
\* seconds the wall clock advances in one run
MaxClock == 1
\* loop iterations counted in the registry (as a delivery or as an error)
MaxEvents == 1
\* configured batch size (batch_size / rows_per_batch)
RowsPerBatch == 1
\* threads that call get_valid_session() side by side
MaxCallers == 2
\* session handles create_snowflake_session() builds in one run
MaxHandles == 3
\* meters of a fleet whose identities are followed one by one
MaxMeters == 12

-----------------------------------------------------------------------------
(* Values *)

Kinds == {"table", "raw", "internal", "external"}

JobIds == 0..MaxClock

\* a counter key that the stats dict does not hold
Absent == -1

Outcomes == {"ok", "raise"}

\* the meter counts start_stream is called with: an empty fleet and a fleet
\* larger than one batch
MeterChoices == {0, RowsPerBatch + 1}

\* generate_ami_reading() has not been called
NoReading == [made |-> FALSE]

\* no SnowpipeStreamingConfig has been built
NoConfig == [built |-> FALSE]

\* the tracking table DB.SCHEMA_PRODUCTION.STREAMING_JOBS holds no row
NoTracking == << >>

\* no SnowpipeStreamingClient has been constructed
NoIngest == [built |-> FALSE]

-----------------------------------------------------------------------------
(* Session provider *)

\* What the liveness probe `SELECT 1` can answer on a session handle: a
\* closed handle cannot execute anything.
ProbeOutcomes(s) ==
    IF s = "closed" THEN {"error"} ELSE {"ok", "expired", "error"}

\* get_valid_session() as one call: s is snowflake_session before the call,
\* probe what the probe answers, create whether create_snowflake_session()
\* succeeds ("ok") or raises.  res is "session" (a handle is returned),
\* "none" (None is returned) or "raise" (the exception propagates); s is the
\* singleton after the call.
GetValidSession(s, probe, create) ==
    IF s = "none" /\ create # "ok"
    THEN [res |-> "none", s |-> "none"]
    ELSE IF probe = "ok"
    THEN [res |-> "session", s |-> "live"]
    ELSE IF probe = "expired"
    THEN IF create = "ok"
         THEN [res |-> "session", s |-> "live"]
         ELSE [res |-> "none", s |-> "closed"]
    ELSE [res |-> "raise", s |-> IF s = "none" THEN "live" ELSE s]

\* every way one get_valid_session() call can end from singleton s
SessionResults(s) ==
    {GetValidSession(s, probe, create) :
        probe \in ProbeOutcomes(s), create \in Outcomes}

\* the singleton after a call whose result the caller does not act on
SessionAfter(s) == {r.s : r \in SessionResults(s)}

\* get_valid_session() statement by statement.  handles are the sessions
\* built so far, each "live" or "closed"; singleton is the handle the global
\* snowflake_session refers to, NoHandle for None.  A caller remembers the
\* handle its probe failed on (probed) and the handle it built (made) until
\* the call ends; out
\* tells how its last call ended: "session" (the handle res was returned),
\* "none" (None was returned) or "raised".
Callers == 1..MaxCallers

NoHandle == 0

Idle == [pc |-> "idle", probed |-> NoHandle, made |-> NoHandle,
         out |-> "-", res |-> NoHandle]

\* the threads followed statement by statement around streaming_lock: one
\* start_stream request, the worker it starts, a stop_streaming_job request
\* and a get_streaming_status request
Threads == {"start", "worker", "stop", "status"}

\* the module as imported: snowflake_session = None
Unstarted ==
    [handles |-> << >>, singleton |-> NoHandle,
     callers |-> [t \in Callers |-> Idle]]

\* after lifespan() has built the first session
Started ==
    [handles |-> <<"live">>, singleton |-> 1,
     callers |-> [t \in Callers |-> Idle]]

-----------------------------------------------------------------------------
(* Stats dictionaries *)

\* the stats dict each worker builds before its first registry write
WorkerStats(kind) ==
    [total_rows |-> 0,
     batches_sent |-> IF kind \in {"table", "external"} THEN 0 ELSE Absent,
     files_written |-> IF kind = "table" THEN Absent ELSE 0,
     errors |-> 0,
     last_batch_time |-> FALSE,
     last_file_time |-> FALSE]

\* the stats dict start_stream puts in a new record
StartStats(kind) ==
    [total_rows |-> 0,
     batches_sent |-> IF kind = "table" THEN 0 ELSE Absent,
     files_written |-> IF kind = "table" THEN Absent ELSE 0,
     errors |-> 0,
     last_batch_time |-> FALSE,
     last_file_time |-> FALSE]

\* len(batch) of the table sink: min(batch_size, len(meter_fleet))
Min(a, b) == IF a <= b THEN a ELSE b

\* `stats[key] += 1` on a counter: KeyError when the dict lacks the key
HasKey(c) == c # Absent

\* The locked stats update after a successful delivery, statement by
\* statement: total_rows first, then the counters of the worker's kind, then
\* the timestamps.  A counter key the dict lacks raises KeyError and leaves
\* the statements before it applied.
AddBatch(st, kind, n) ==
    LET s1 == [st EXCEPT !.total_rows = @ + n] IN
    IF kind = "table"
    THEN IF HasKey(st.batches_sent)
         THEN [stats |-> [s1 EXCEPT !.batches_sent = @ + 1,
                                    !.last_batch_time = TRUE],
               raised |-> FALSE]
         ELSE [stats |-> s1, raised |-> TRUE]
    ELSE IF ~HasKey(st.files_written)
    THEN [stats |-> s1, raised |-> TRUE]
    ELSE LET s2 == [s1 EXCEPT !.files_written = @ + 1] IN
         IF kind = "external"
         THEN IF HasKey(st.batches_sent)
              THEN [stats |-> [s2 EXCEPT !.batches_sent = @ + 1,
                                         !.last_file_time = TRUE,
                                         !.last_batch_time = TRUE],
                    raised |-> FALSE]
              ELSE [stats |-> s2, raised |-> TRUE]
         ELSE [stats |-> [s2 EXCEPT !.last_file_time = TRUE],
               raised |-> FALSE]

\* `stats['errors'] += 1` under the lock
AddError(st) == [st EXCEPT !.errors = @ + 1]

\* what a record has counted: its errors and its deliveries
Counted(st) ==
    st.errors + (IF st.files_written >= st.batches_sent
                 THEN st.files_written ELSE st.batches_sent)

RECURSIVE SumCounted(_, _)
SumCounted(J, S) ==
    IF S = {} THEN 0
    ELSE LET j == CHOOSE x \in S : TRUE
         IN Counted(J[j].stats) + SumCounted(J, S \ {j})

\* the counters of the registry stay within the bound of the model
Within(J) == SumCounted(J, DOMAIN J) <= MaxEvents

-----------------------------------------------------------------------------
(* Registry writes, each one region under streaming_lock *)

InRegistry(j) == j \in DOMAIN jobs

\* a first write that drops a record already marked STOPPING
RunningWriteDropping(J, j, kind) ==
    IF j \in DOMAIN J /\ J[j].status = "STOPPING"
    THEN [k \in DOMAIN J \ {j} |-> J[k]]
    ELSE IF j \in DOMAIN J
    THEN [J EXCEPT ![j].stats = WorkerStats(kind), ![j].status = "RUNNING"]
    ELSE J

\* the worker's first write: replace the stats, set RUNNING
RunningWrite(J, j, kind) ==
    IF j \in DOMAIN J
    THEN [J EXCEPT ![j].stats = WorkerStats(kind), ![j].status = "RUNNING"]
    ELSE J

\* a set-up failure that fails every job of the registry
FailedWriteAll(J, j) ==
    [k \in DOMAIN J |->
        [J[k] EXCEPT !.status = "FAILED", !.stats = AddError(@)]]

\* a set-up failure that counts the error and forgets the status
FailedWriteNoStatus(J, j) ==
    IF j \in DOMAIN J THEN [J EXCEPT ![j].stats = AddError(@)] ELSE J

\* a set-up failure: set FAILED and count one error
FailedWrite(J, j) ==
    IF j \in DOMAIN J
    THEN [J EXCEPT ![j].status = "FAILED", ![j].stats = AddError(@)]
    ELSE J

\* an except handler of the loop that fails the job as the set-up does
StatsWriteFailing(J, j, st) ==
    IF j \in DOMAIN J
    THEN [J EXCEPT ![j].stats = st,
                   ![j].status = IF st.errors > J[j].stats.errors
                                 THEN "FAILED" ELSE @]
    ELSE J

\* the loop's write after an iteration: the stats update of a delivery or
\* the `errors += 1` of an except handler
StatsWrite(J, j, st) ==
    IF j \in DOMAIN J THEN [J EXCEPT ![j].stats = st] ELSE J

\* stop_streaming_job without its membership test
StoppingWriteAnyId(J, j) ==
    [k \in DOMAIN J \cup {j} |->
        IF k = j
        THEN [thread |-> 0, status |-> "STOPPING", kind |-> "table",
              stats |-> StartStats("table")]
        ELSE J[k]]

\* stop_streaming_job's write
StoppingWrite(J, j) ==
    IF j \in DOMAIN J THEN [J EXCEPT ![j].status = "STOPPING"] ELSE J

\* the record start_stream inserts (or overwrites) under its job id
NewRecord(kind, thread) ==
    [thread |-> thread, status |-> "STARTING", kind |-> kind,
     stats |-> StartStats(kind)]

-----------------------------------------------------------------------------
(* Control plane *)

Init ==
    /\ clock = 0
    /\ jobs = [j \in {} |-> NewRecord("table", 0)]
    /\ workers = << >>
    /\ sess = "live"
    /\ boto3 \in BOOLEAN
    /\ provider = Started
    /\ lock = "free"
    /\ threads = [t \in Threads |-> "idle"]
    /\ reading = NoReading
    /\ config = NoConfig
    /\ tracking = NoTracking
    /\ ingest = NoIngest

\* job_id = f"flux_stream_{utcnow:%Y%m%d_%H%M%S}"
JobIdAt(t) == t

\* the job of a start_stream call at clock 0
TheJob == JobIdAt(0)

\* A second passes on the wall clock.  The program reads the clock only to
\* name a new job, so a second in which no start_stream call fell leaves no
\* trace in it: the model counts the seconds that gave a job its id.
Tick ==
    /\ clock < MaxClock
    /\ JobIdAt(clock) \in DOMAIN jobs
    /\ clock' = clock + 1
    /\ UNCHANGED <<jobs, workers, sess, boto3>>
    /\ UNCHANGED stepwise
    /\ UNCHANGED aside

\* production_source of a job: the synthetic source, a key of
\* PRODUCTION_DATA_SOURCES with a table, a name that is no key
Sources == {"SYNTHETIC", "METER_INFRASTRUCTURE", "UNKNOWN"}

\* start_stream for one of the streaming mechanisms, its DDL and tracking
\* statements having succeeded on snowflake_session: insert the record under
\* the lock, then start the thread.
StartFrom(kind, meters, source, limit) ==
    /\ Len(workers) < limit
    /\ sess = "live"
    /\ kind = "raw" => boto3
    /\ LET j == JobIdAt(clock)
           w == Len(workers) + 1
       IN /\ jobs' = [k \in DOMAIN jobs \cup {j} |->
                        IF k = j THEN NewRecord(kind, w) ELSE jobs[k]]
          /\ workers' = Append(workers,
                [job |-> j, kind |-> kind, meters |-> meters,
                 source |-> source, fleet |-> 0, matched |-> FALSE,
                 pc |-> "init", pipes |-> FALSE, since |-> 0,
                 refreshes |-> 0, temp |-> 0])
    /\ UNCHANGED <<clock, sess, boto3>>
    /\ UNCHANGED stepwise
    /\ UNCHANGED aside

\* start_stream with the default production_source
StartJob(kind, meters, limit) == StartFrom(kind, meters, "SYNTHETIC", limit)

\* stop_streaming_job(job_id): the locked write, then the tracking-table
\* update through get_valid_session(); every exception is caught.
StopJob(j, after) ==
    /\ jobs' = StoppingWrite(jobs, j)
    /\ sess' = after
    /\ UNCHANGED <<clock, workers, boto3>>
    /\ UNCHANGED stepwise
    /\ UNCHANGED aside

-----------------------------------------------------------------------------
(* Workers *)

Goto(w, to) == workers' = [workers EXCEPT ![w].pc = to]

\* The first registry write of a worker.  The two S3-backed workers first
\* test BOTO3_AVAILABLE and fail the job without it.
WorkerInit(w) ==
    LET me == workers[w] IN
    /\ me.pc = "init"
    /\ IF me.kind \in {"raw", "external"} /\ ~boto3
       THEN /\ jobs' = FailedWrite(jobs, me.job)
            /\ Goto(w, "done")
       ELSE /\ jobs' = RunningWrite(jobs, me.job, me.kind)
            /\ Goto(w, IF me.kind = "external" THEN "stage" ELSE "setup")
    /\ UNCHANGED <<clock, sess, boto3>>
    /\ UNCHANGED stepwise
    /\ UNCHANGED aside

\* external stage: pipe discovery, then the stage metadata lookup, each
\* through get_valid_session(); pipes says whether a pipe referencing the
\* stage was found, found whether DESC STAGE gave an s3:// URL.  Without a
\* bucket the job fails.
WorkerStage(w, r1, r2, found, pipes) ==
    LET me == workers[w] IN
    /\ me.pc = "stage"
    /\ r1 \in SessionResults(sess)
    /\ r2 \in SessionResults(r1.s)
    /\ sess' = r2.s
    /\ pipes => r1.res = "session"
    /\ IF r2.res = "session" /\ found
       THEN /\ workers' = [workers EXCEPT ![w].pc = "setup",
                                          ![w].pipes = pipes]
            /\ UNCHANGED jobs
       ELSE /\ jobs' = FailedWrite(jobs, me.job)
            /\ Goto(w, "done")
    /\ UNCHANGED <<clock, boto3>>
    /\ UNCHANGED stepwise
    /\ UNCHANGED aside

\* PRODUCTION_DATA_SOURCES.get(production_source) gives a source to query
KnownSource(source) == source = "METER_INFRASTRUCTURE"

\* What the catalog answers to the fleet query: q whether collect() raises,
\* rows how many meters the table holds, bad the first row whose conversion
\* raises (0: none).
CatalogSizes == 0..(RowsPerBatch + 2)

NoCatalog == [q |-> "ok", rows |-> 0, bad |-> 0]

CatalogAnswers(source) ==
    IF KnownSource(source)
    THEN [q : Outcomes, rows : CatalogSizes, bad : CatalogSizes]
    ELSE {NoCatalog}

\* a fleet load that asks the catalog for all its rows
ResolveFleetNoLimit(kind, n, source, res, c) ==
    LET queried == res = "session" /\ source # "SYNTHETIC"
                      /\ KnownSource(source)
        loaded == IF ~queried \/ c.q = "raise" THEN 0 ELSE c.rows
    IN IF loaded = 0
       THEN [size |-> n, matched |-> FALSE]
       ELSE [size |-> loaded, matched |-> TRUE]

\* The fleet load for n meters: with a session and a known source other than
\* SYNTHETIC the query (LIMIT n) is run and its rows appended until one
\* raises (the table worker converts nothing); every exception is swallowed,
\* and an empty fleet is replaced by n synthetic meters.
ResolveFleet(kind, n, source, res, c) ==
    LET queried == res = "session" /\ source # "SYNTHETIC"
                      /\ KnownSource(source)
        got == Min(c.rows, n)
        loaded == IF ~queried \/ c.q = "raise" THEN 0
                  ELSE IF kind # "table" /\ c.bad >= 1 /\ c.bad <= got
                  THEN c.bad - 1
                  ELSE got
    IN IF loaded = 0
       THEN [size |-> n, matched |-> FALSE]
       ELSE [size |-> loaded, matched |-> TRUE]

\* The rest of the set-up: the S3 client and head_bucket for the S3-backed
\* workers (s3 is what they answer), then the fleet load (c is what the
\* catalog answers), whose every exception is swallowed.
WorkerSetupFrom(w, s3, r, c) ==
    LET me == workers[w]
        fleet == ResolveFleet(me.kind, me.meters, me.source, r.res, c)
    IN
    /\ me.pc = "setup"
    /\ r \in SessionResults(sess)
    /\ IF me.kind \in {"raw", "external"} /\ s3 = "raise"
       THEN /\ jobs' = FailedWrite(jobs, me.job)
            /\ Goto(w, "done")
            /\ UNCHANGED sess
       ELSE /\ sess' = r.s
            /\ workers' = [workers EXCEPT ![w].pc = "loop",
                                          ![w].fleet = fleet.size,
                                          ![w].matched = fleet.matched]
            /\ UNCHANGED jobs
    /\ UNCHANGED <<clock, boto3>>
    /\ UNCHANGED stepwise
    /\ UNCHANGED aside

\* the set-up of a job whose source the catalog is not asked for
WorkerSetup(w, s3, r) == WorkerSetupFrom(w, s3, r, NoCatalog)

AtLoopTop(pc) == pc \in {"loop", "sleep", "backoff"}

\* top of the loop, after the sleep that precedes it: the stop check
WorkerCheck(w) ==
    LET me == workers[w] IN
    /\ AtLoopTop(me.pc)
    /\ IF ~InRegistry(me.job)
       THEN /\ Goto(w, "done")
            /\ UNCHANGED jobs
       ELSE IF jobs[me.job].status = "STOPPING"
       THEN /\ jobs' = [jobs EXCEPT ![me.job].status = "STOPPED"]
            /\ Goto(w, "done")
       ELSE /\ Goto(w, "deliver")
            /\ UNCHANGED jobs
    /\ UNCHANGED <<clock, sess, boto3>>
    /\ UNCHANGED stepwise
    /\ UNCHANGED aside

\* refresh the discovered pipes every N files written
REFRESH_EVERY_N_FILES == 5

\* len(batch) / len(records) of one iteration
BatchLen(kind, meters) ==
    IF kind = "table" THEN Min(RowsPerBatch, meters) ELSE RowsPerBatch

\* random.choice(meter_fleet) on an empty fleet raises IndexError; the table
\* sink draws min(batch_size, 0) = 0 readings and never calls it
SynthRaises(kind, meters) ==
    kind # "table" /\ RowsPerBatch > 0 /\ meters = 0

\* the wait after an exception caught by the loop's outer handler
\* (time.sleep(1) / time.sleep(5)), and the cadence sleep
Failed(st) == [stats |-> AddError(st), next |-> "backoff", sent |-> FALSE]

Sent(st, kind, n, onKeyError) ==
    LET a == AddBatch(st, kind, n) IN
    IF a.raised
    THEN [stats |-> AddError(a.stats), next |-> onKeyError, sent |-> FALSE]
    ELSE [stats |-> a.stats, next |-> "sleep", sent |-> TRUE]

\* One pass through the try block of a worker's loop, from the record's
\* stats st: res is what get_valid_session() gave (table and internal stage
\* sinks), d what the delivery call did.  Gives the stats after the pass,
\* the wait the pass ends in, and whether a batch was counted.
Iteration(kind, meters, st, res, d) ==
    LET n == BatchLen(kind, meters) IN
    CASE kind = "table" ->
           IF res = "raise" THEN Failed(st)
           ELSE IF res = "none" \/ n = 0
           THEN [stats |-> st, next |-> "sleep", sent |-> FALSE]
           ELSE IF d = "raise" THEN Failed(st)
           ELSE Sent(st, kind, n, "backoff")
      [] kind = "internal" ->
           IF res = "raise" THEN Failed(st)
           ELSE IF res = "none"
           THEN [stats |-> st, next |-> "backoff", sent |-> FALSE]
           ELSE IF SynthRaises(kind, meters) \/ d \in {"raise", "write_raise"}
           THEN Failed(st)
           ELSE Sent(st, kind, n, "backoff")
      [] kind = "raw" ->
           IF SynthRaises(kind, meters) \/ d = "raise" THEN Failed(st)
           ELSE Sent(st, kind, n, "backoff")
      [] kind = "external" ->
           IF SynthRaises(kind, meters) THEN Failed(st)
           ELSE IF d = "raise"
           THEN [stats |-> AddError(st), next |-> "sleep", sent |-> FALSE]
           ELSE Sent(st, kind, n, "sleep")

\* a counter that is never reset
SinceAfterNoReset(since, pipes, res) == since + 1

\* files_since_last_refresh after a counted upload of the external worker:
\* with discovered pipes and N files since the last refresh the pipes are
\* refreshed through get_valid_session() and the counter reset, unless no
\* session is returned
SinceAfter(since, pipes, res) ==
    IF pipes /\ since + 1 >= REFRESH_EVERY_N_FILES /\ res = "session"
    THEN 0
    ELSE since + 1

RefreshDue(since, pipes) == pipes /\ since + 1 >= REFRESH_EVERY_N_FILES

\* What the internal-stage worker's file handling can meet besides the
\* answers of the PUT: a write to the temp file that raises, an os.unlink
\* that raises (after a PUT that succeeded).
FileOutcomes == Outcomes \cup {"write_raise", "unlink_raise"}

\* The temp files one pass of the internal-stage worker leaves on disk.
\* NamedTemporaryFile(delete=False) creates the file once the batch is
\* synthesized; the writes come before the try whose finally unlinks it,
\* and an error of os.unlink is swallowed.
TempLeft(kind, meters, res, d) ==
    IF kind = "internal" /\ res = "session" /\ ~SynthRaises(kind, meters)
          /\ d \in {"write_raise", "unlink_raise"}
    THEN 1
    ELSE 0

\* the rounds of ALTER PIPE ... REFRESH issued so far, one statement per
\* discovered pipe in each round
RefreshesAfter(refreshes, since, pipes, res) ==
    IF RefreshDue(since, pipes) /\ res = "session"
    THEN refreshes + 1
    ELSE refreshes

\* the body of the loop: synthesize, deliver, update the stats under the
\* lock; budget is the number of iterations followed in the registry
LoopPass(w, r, d, budget) ==
    LET me == workers[w]
        j == me.job
        it == Iteration(me.kind, me.fleet, jobs[j].stats, r.res, d)
        refresh == me.kind = "external" /\ it.sent
                      /\ RefreshDue(me.since, me.pipes)
        after == StatsWrite(jobs, j, it.stats)
    IN
    /\ me.pc = "deliver"
    /\ r \in SessionResults(sess)
    /\ InRegistry(j)
    /\ SumCounted(after, DOMAIN after) <= budget
    /\ jobs' = after
    /\ sess' = IF me.kind \in {"table", "internal"} \/ refresh
               THEN r.s ELSE sess
    /\ workers' = [workers EXCEPT
                     ![w].pc = it.next,
                     ![w].since = IF me.kind = "external" /\ it.sent
                                  THEN SinceAfter(@, me.pipes, r.res)
                                  ELSE @,
                     ![w].refreshes =
                         IF me.kind = "external" /\ it.sent
                         THEN RefreshesAfter(@, me.since, me.pipes, r.res)
                         ELSE @,
                     ![w].temp = @ + TempLeft(me.kind, me.fleet, r.res, d)]
    /\ UNCHANGED <<clock, boto3>>
    /\ UNCHANGED stepwise
    /\ UNCHANGED aside

WorkerDeliver(w, r, d) == LoopPass(w, r, d, MaxEvents)

-----------------------------------------------------------------------------

\* the step of worker w at its program counter, with what the outside world
\* answers to the calls of the step
WorkerStepIn(w, budget, answers) ==
    \/ WorkerInit(w)
    \/ /\ workers[w].pc = "stage"
       /\ \E r1 \in SessionResults(sess) :
             \E r2 \in SessionResults(r1.s), found \in BOOLEAN,
                pipes \in BOOLEAN :
                WorkerStage(w, r1, r2, found, pipes)
    \/ /\ workers[w].pc = "setup"
       /\ \E s3 \in Outcomes, r \in SessionResults(sess),
             c \in CatalogAnswers(workers[w].source) :
             WorkerSetupFrom(w, s3, r, c)
    \/ WorkerCheck(w)
    \/ /\ workers[w].pc = "deliver"
       /\ \E r \in SessionResults(sess), d \in answers :
             LoopPass(w, r, d, budget)

WorkerStep(w) == WorkerStepIn(w, MaxEvents, Outcomes)

Start(limit) ==
    \E kind \in Kinds, meters \in MeterChoices : StartJob(kind, meters, limit)

Stop == \E j \in JobIds, after \in SessionAfter(sess) : StopJob(j, after)

Work == \E w \in DOMAIN workers : WorkerStep(w)

Next == Tick \/ Start(MaxStarts) \/ Stop \/ Work

Spec == Init /\ [][Next]_vars

\* the worker threads are scheduled: a worker that can step does step
FairSpec == Spec /\ WF_vars(Work)

\* one start_stream call more, so that two calls can fall in the same second
\* and two workers run side by side
PairNext == Tick \/ Start(MaxStarts + 1) \/ Stop \/ Work

PairSpec == Init /\ [][PairNext]_vars

\* Two jobs side by side under job ids of their own: start_stream has been
\* called in two different seconds, for any two sinks, and both worker
\* threads are started.
DuoWorker(j, kind) ==
    [job |-> j, kind |-> kind, meters |-> RowsPerBatch + 1,
     source |-> "SYNTHETIC", fleet |-> 0, matched |-> FALSE, pc |-> "init",
     pipes |-> FALSE, since |-> 0, refreshes |-> 0, temp |-> 0]

DuoInit ==
    /\ clock = MaxClock
    /\ boto3 \in BOOLEAN
    /\ \E k1, k2 \in Kinds :
          /\ (k1 = "raw" \/ k2 = "raw") => boto3
          /\ jobs = [j \in {JobIdAt(0), JobIdAt(MaxClock)} |->
                        IF j = JobIdAt(0) THEN NewRecord(k1, 1)
                        ELSE NewRecord(k2, 2)]
          /\ workers = <<DuoWorker(JobIdAt(0), k1),
                         DuoWorker(JobIdAt(MaxClock), k2)>>
    /\ sess = "live"
    /\ provider = Started
    /\ lock = "free"
    /\ threads = [t \in Threads |-> "idle"]
    /\ reading = NoReading
    /\ config = NoConfig
    /\ tracking = NoTracking
    /\ ingest = NoIngest

DuoNext == Stop \/ Work

DuoSpec == DuoInit /\ [][DuoNext]_vars

\* one job alone, followed long enough for its worker to reach a refresh of
\* the pipes
SoloBudget == REFRESH_EVERY_N_FILES + MaxEvents

SoloStart ==
    \E kind \in Kinds, meters \in MeterChoices, source \in Sources :
        StartFrom(kind, meters, source, 1)

SoloWork ==
    \E w \in DOMAIN workers : WorkerStepIn(w, SoloBudget, FileOutcomes)

SoloNext == Tick \/ SoloStart \/ Stop \/ SoloWork

SoloSpec == Init /\ [][SoloNext]_vars

-----------------------------------------------------------------------------
(* get_valid_session(), statement by statement *)

Caller(t) == provider.callers[t]

\* caller t moves on; f gives the fields of its record that change
Moves(t, f) ==
    [provider.callers EXCEPT ![t] = [k \in DOMAIN @ |->
        IF k \in DOMAIN f THEN f[k] ELSE @[k]]]

\* the call ends for caller t
Ends(t, out, res) ==
    Moves(t, [pc |-> "idle", probed |-> NoHandle, made |-> NoHandle,
              out |-> out, res |-> res])

\* create_snowflake_session() builds one more handle
CanCreate == Len(provider.handles) < MaxHandles

NewHandle == Len(provider.handles) + 1

\* 313-318: the call starts; with no session yet it builds one (create says
\* whether that succeeds) or returns None
SessionEnter(t, create) ==
    /\ Caller(t).pc = "idle"
    /\ IF provider.singleton # NoHandle
       THEN provider' = [provider EXCEPT !.callers = Moves(t,
                [pc |-> "probe", probed |-> NoHandle, made |-> NoHandle,
                 out |-> "-", res |-> NoHandle])]
       ELSE IF create = "ok"
       THEN /\ CanCreate
            /\ provider' = [handles |-> Append(provider.handles, "live"),
                            singleton |-> NewHandle,
                            callers |-> Moves(t,
                               [pc |-> "probe", probed |-> NoHandle,
                                made |-> NewHandle, out |-> "-",
                                res |-> NoHandle])]
       ELSE provider' = [provider EXCEPT !.callers =
                            Ends(t, "none", NoHandle)]
    /\ UNCHANGED <<clock, jobs, workers, sess, boto3, lock, threads>>
    /\ UNCHANGED aside

\* a probe that swallows every error
AfterProbeSwallowing(o) ==
    CASE o = "ok" -> "return"
      [] o = "expired" -> "close"
      [] OTHER -> "none"

\* 320-343: where the probe's answer leads
AfterProbe(o) ==
    CASE o = "ok" -> "return"
      [] o = "expired" -> "close"
      [] OTHER -> "raise"

\* 321-323, 324-327, 341-343: the probe on the handle the global refers to
SessionProbe(t, o) ==
    LET h == provider.singleton
        to == AfterProbe(o)
    IN
    /\ Caller(t).pc = "probe"
    /\ o \in ProbeOutcomes(provider.handles[h])
    /\ provider' = [provider EXCEPT !.callers =
          CASE to = "return" -> Ends(t, "session", h)
            [] to = "close" -> Moves(t, [pc |-> "close", probed |-> h])
            [] to = "none" -> Ends(t, "none", NoHandle)
            [] OTHER -> Ends(t, "raised", NoHandle)]
    /\ UNCHANGED <<clock, jobs, workers, sess, boto3, lock, threads>>
    /\ UNCHANGED aside

\* a close of the handle the caller's probe failed on
ClosesProbed(singleton, probed) == probed

\* 330-332: the handle snowflake_session.close() is called on
Closes(singleton, probed) == singleton

\* 330-334: close the handle; an error of close() is ignored, and the
\* handle is then still open
SessionClose(t, c) ==
    LET g == Closes(provider.singleton, Caller(t).probed) IN
    /\ Caller(t).pc = "close"
    /\ provider' = [provider EXCEPT
          !.handles = IF c = "ok" THEN [@ EXCEPT ![g] = "closed"] ELSE @,
          !.callers = Moves(t, [pc |-> "create"])]
    /\ UNCHANGED <<clock, jobs, workers, sess, boto3, lock, threads>>
    /\ UNCHANGED aside

\* a replacement that is built and not stored
StoredNever(singleton, new) == singleton

\* 335: snowflake_session = create_snowflake_session()
Stored(singleton, new) == new

\* 335, 338-340: build the replacement and store it in the global, or
\* return None.  The store follows the construction without reading the
\* global, so the two are one step.
SessionCreate(t, create) ==
    /\ Caller(t).pc = "create"
    /\ IF create = "ok"
       THEN /\ CanCreate
            /\ provider' = [handles |-> Append(provider.handles, "live"),
                            singleton |-> Stored(provider.singleton,
                                                 NewHandle),
                            callers |-> Moves(t,
                               [pc |-> "return", made |-> NewHandle])]
       ELSE provider' = [provider EXCEPT !.callers =
                            Ends(t, "none", NoHandle)]
    /\ UNCHANGED <<clock, jobs, workers, sess, boto3, lock, threads>>
    /\ UNCHANGED aside

\* 337: return snowflake_session, the global as it is now
SessionReturn(t) ==
    /\ Caller(t).pc = "return"
    /\ provider' = [provider EXCEPT !.callers =
                        Ends(t, "session", provider.singleton)]
    /\ UNCHANGED <<clock, jobs, workers, sess, boto3, lock, threads>>
    /\ UNCHANGED aside

Enter == \E t \in Callers, create \in Outcomes : SessionEnter(t, create)

Probe ==
    \E t \in Callers, o \in {"ok", "expired", "error"} : SessionProbe(t, o)

Close == \E t \in Callers, c \in Outcomes : SessionClose(t, c)

Create == \E t \in Callers, create \in Outcomes : SessionCreate(t, create)

Return == \E t \in Callers : SessionReturn(t)

\* the callers of get_valid_session(), from the module as imported or as
\* lifespan() leaves it
ProviderInit ==
    /\ clock = 0
    /\ jobs = [j \in {} |-> NewRecord("table", 0)]
    /\ workers = << >>
    /\ sess = "live"
    /\ boto3 = TRUE
    /\ provider \in {Unstarted, Started}
    /\ lock = "free"
    /\ threads = [t \in Threads |-> "idle"]
    /\ reading = NoReading
    /\ config = NoConfig
    /\ tracking = NoTracking
    /\ ingest = NoIngest

ProviderNext == Enter \/ Probe \/ Close \/ Create \/ Return

ProviderSpec == ProviderInit /\ [][ProviderNext]_vars

-----------------------------------------------------------------------------
(* A table-sink worker among the callers of get_valid_session() *)

\* Caller 1 is the worker of a RUNNING table-sink job, the other callers
\* are the threads that call get_valid_session() beside it.  The
\* replacement session can always be built, the warehouse accepts every
\* statement on a live session whose token has not expired, and the token
\* expires only as often as the run has handles left to replace it.
TheWorker == 1

RunningJob ==
    RunningWrite([j \in {TheJob} |-> NewRecord("table", TheWorker)],
                 TheJob, "table")

Replacing == {t \in Callers : Caller(t).pc \in {"close", "create"}}

ExpiryAllowed ==
    Len(provider.handles) + Cardinality(Replacing) < MaxHandles

LoopEnters(t) ==
    /\ Caller(t).out \in {"-", "delivered"}
    /\ SessionEnter(t, "ok")

LoopProbes(t, o) ==
    /\ o = "expired" => ExpiryAllowed
    /\ o = "error" => provider.handles[provider.singleton] = "closed"
    /\ SessionProbe(t, o)

\* The rest of the loop body after get_valid_session() (499-551): the
\* INSERT on the handle returned, which a closed handle refuses, and the
\* locked stats update or the handler's errors += 1.  The job's counters
\* are followed for MaxEvents iterations and left alone after that.
LoopDelivers(t) ==
    LET c == Caller(t)
        st == jobs[TheJob].stats
        accepted == c.out = "session" /\ provider.handles[c.res] = "live"
        it == IF accepted
              THEN Sent(st, "table", RowsPerBatch, "backoff")
              ELSE IF c.out = "none"
              THEN [stats |-> st, next |-> "sleep", sent |-> FALSE]
              ELSE Failed(st)
    IN
    /\ c.pc = "idle"
    /\ c.out \in {"session", "none", "raised"}
    /\ provider' = [provider EXCEPT !.callers = Moves(t,
          [out |-> IF accepted THEN "delivered" ELSE "-"])]
    /\ jobs' = IF t = TheWorker /\ Counted(st) < MaxEvents
               THEN StatsWrite(jobs, TheJob, it.stats)
               ELSE jobs
    /\ UNCHANGED <<clock, workers, sess, boto3, lock, threads>>
    /\ UNCHANGED aside

LoopStep(t) ==
    \/ LoopEnters(t)
    \/ \E o \in {"ok", "expired", "error"} : LoopProbes(t, o)
    \/ \E c \in Outcomes : SessionClose(t, c)
    \/ SessionCreate(t, "ok")
    \/ SessionReturn(t)
    \/ LoopDelivers(t)

LoopInit ==
    /\ clock = 0
    /\ jobs = RunningJob
    /\ workers = << >>
    /\ sess = "live"
    /\ boto3 = TRUE
    /\ provider = Started
    /\ lock = "free"
    /\ threads = [t \in Threads |-> "idle"]
    /\ reading = NoReading
    /\ config = NoConfig
    /\ tracking = NoTracking
    /\ ingest = NoIngest

LoopNext == \E t \in Callers : LoopStep(t)

\* every thread is scheduled again and again
LoopSpec ==
    LoopInit /\ [][LoopNext]_vars /\ \A t \in Callers : WF_vars(LoopStep(t))

-----------------------------------------------------------------------------
(* streaming_lock, statement by statement *)

\* Where a thread is: before a `with streaming_lock:` ("..._wait"), inside
\* it ("..._locked"), or at a call or sleep outside it.  One job is
\* followed, the one start_stream creates at clock 0.
WaitPcs == {"insert_wait", "init_wait", "fail_wait", "check_wait",
            "update_wait", "error_wait", "stop_wait", "status_wait"}

\* the region a waiting thread enters
Region(pc) ==
    CASE pc = "insert_wait" -> "insert_locked"
      [] pc = "init_wait"   -> "init_locked"
      [] pc = "fail_wait"   -> "fail_locked"
      [] pc = "check_wait"  -> "check_locked"
      [] pc = "update_wait" -> "update_locked"
      [] pc = "error_wait"  -> "error_locked"
      [] pc = "stop_wait"   -> "stop_locked"
      [] pc = "status_wait" -> "status_locked"

LockedPcs == {Region(pc) : pc \in WaitPcs}

\* the calls and sleeps made outside the lock: the DDL of start_stream, the
\* worker's set-up, delivery and sleeps, the tracking update of
\* stop_streaming_job, the response of get_streaming_status
BlockingPcs == {"ddl", "setup", "deliver", "sleep", "backoff", "track",
                "respond"}

To(t, pc) == threads' = [threads EXCEPT ![t] = pc]

\* a `with` block that never releases
ReleasedNever(t) == t

\* leaving a `with streaming_lock:` block
Released(t) == "free"

\* entering a `with streaming_lock:` block
Acquire(t) ==
    /\ threads[t] \in WaitPcs
    /\ lock = "free"
    /\ lock' = t
    /\ To(t, Region(threads[t]))
    /\ UNCHANGED <<clock, jobs, workers, sess, boto3, provider>>
    /\ UNCHANGED aside

\* a step outside the lock that touches nothing of the registry
Unlocked(t, from, to) ==
    /\ threads[t] = from
    /\ To(t, to)
    /\ UNCHANGED <<clock, jobs, workers, sess, boto3, provider, lock>>
    /\ UNCHANGED aside

\* the body of a locked region, leaving the registry as J, and the release
LockedRegion(t, from, to, J) ==
    /\ threads[t] = from
    /\ lock = t
    /\ jobs' = J
    /\ lock' = Released(t)
    /\ To(t, to)
    /\ UNCHANGED <<clock, workers, sess, boto3, provider>>
    /\ UNCHANGED aside

\* start_stream: the DDL, the record inserted under the lock, then
\* worker_thread.start()
StartRequest(kind) ==
    \/ Unlocked("start", "idle", "ddl")
    \/ Unlocked("start", "ddl", "insert_wait")
    \/ /\ kind = "raw" => boto3
       /\ LockedRegion("start", "insert_locked", "spawn",
             [k \in DOMAIN jobs \cup {TheJob} |->
                 IF k = TheJob THEN NewRecord(kind, 1) ELSE jobs[k]])
    \/ /\ threads["start"] = "spawn"
       /\ threads' = [threads EXCEPT !["start"] = "done",
                                     !["worker"] = "init_wait"]
       /\ UNCHANGED <<clock, jobs, workers, sess, boto3, provider, lock>>
       /\ UNCHANGED aside

\* the worker of the job: first write, set-up, then the loop of stop check,
\* delivery, stats update and sleep; d is what the set-up or the delivery
\* call (with its get_valid_session()) did
WorkerThread(d) ==
    LET t == "worker"
        kind == jobs[TheJob].kind
        st == jobs[TheJob].stats
        n == BatchLen(kind, RowsPerBatch)
        sent == AddBatch(st, kind, n)
    IN
    \/ LockedRegion(t, "init_locked",
          IF kind \in {"raw", "external"} /\ ~boto3 THEN "done" ELSE "setup",
          IF kind \in {"raw", "external"} /\ ~boto3
          THEN FailedWrite(jobs, TheJob)
          ELSE RunningWrite(jobs, TheJob, kind))
    \/ Unlocked(t, "setup",
          IF kind \in {"raw", "external"} /\ d = "raise"
          THEN "fail_wait" ELSE "check_wait")
    \/ LockedRegion(t, "fail_locked", "done", FailedWrite(jobs, TheJob))
    \/ /\ threads[t] = "check_locked"
       /\ IF ~InRegistry(TheJob)
          THEN LockedRegion(t, "check_locked", "done", jobs)
          ELSE IF jobs[TheJob].status = "STOPPING"
          THEN LockedRegion(t, "check_locked", "done",
                  [jobs EXCEPT ![TheJob].status = "STOPPED"])
          ELSE LockedRegion(t, "check_locked", "deliver", jobs)
    \/ Unlocked(t, "deliver",
          IF d = "raise" THEN "error_wait" ELSE "update_wait")
    \/ /\ threads[t] = "update_locked"
       /\ Counted(st) < MaxEvents
       /\ IF sent.raised
          THEN LockedRegion(t, "update_locked", "error_wait",
                  StatsWrite(jobs, TheJob, sent.stats))
          ELSE LockedRegion(t, "update_locked", "sleep",
                  StatsWrite(jobs, TheJob, sent.stats))
    \/ /\ threads[t] = "error_locked"
       /\ Counted(st) < MaxEvents
       /\ LockedRegion(t, "error_locked", "backoff",
             StatsWrite(jobs, TheJob, AddError(st)))
    \/ Unlocked(t, "sleep", "check_wait")
    \/ Unlocked(t, "backoff", "check_wait")

\* stop_streaming_job: the locked write, then the tracking-table update
StopRequest ==
    \/ Unlocked("stop", "idle", "stop_wait")
    \/ LockedRegion("stop", "stop_locked", "track",
          StoppingWrite(jobs, TheJob))
    \/ Unlocked("stop", "track", "idle")

\* get_streaming_status: the list built under the lock, then the response
StatusRequest ==
    \/ Unlocked("status", "idle", "status_wait")
    \/ LockedRegion("status", "status_locked", "respond", jobs)
    \/ Unlocked("status", "respond", "idle")

Acquires == \E t \in Threads : Acquire(t)

Starts == \E kind \in Kinds : StartRequest(kind)

Runs == \E d \in Outcomes : WorkerThread(d)

LockNext == Acquires \/ Starts \/ Runs \/ StopRequest \/ StatusRequest

LockSpec == Init /\ [][LockNext]_vars

-----------------------------------------------------------------------------
(* generate_ami_reading() *)

\* datetime.now().hour
Hours == 0..23

\* Samples of what random.uniform draws for base_usage at an hour, in
\* hundred-thousandths of a kWh: the ends of the interval and values
\* between them that are no multiple of a ten-thousandth.  The samples are
\* even, so that no product with a multiplier falls half way between two
\* ten-thousandths, where round() depends on the binary fraction.
BaseUsages(hour) ==
    IF 14 <= hour /\ hour <= 19 THEN {150000, 234568, 350000}
    ELSE IF 6 <= hour /\ hour <= 9 THEN {100000, 172002, 250000}
    ELSE {30000, 30002, 98764, 150000}

\* customer_segment of the meter: the three segments, one the code does not
\* name, and a meter_info without the key
MeterSegments ==
    {"INDUSTRIAL", "COMMERCIAL", "RESIDENTIAL", "AGRICULTURAL", "missing"}

\* meter_info.get('customer_segment', 'RESIDENTIAL')
SegmentOf(meter) == IF meter = "missing" THEN "RESIDENTIAL" ELSE meter

\* a multiplier that knows no COMMERCIAL segment
MultiplierFlat(segment) == IF segment = "INDUSTRIAL" THEN 15 ELSE 1

\* usage_multiplier
Multiplier(segment) ==
    IF segment = "INDUSTRIAL" THEN 15
    ELSE IF segment = "COMMERCIAL" THEN 5
    ELSE 1

\* round(x, 4) of an amount x given in hundred-thousandths: the nearest
\* ten-thousandth, the even one of two equally near
Round4(x) ==
    LET q == x \div 10
        r == x % 10
    IN IF r < 5 THEN q
       ELSE IF r > 5 THEN q + 1
       ELSE IF q % 2 = 0 THEN q ELSE q + 1

\* random.randint(1, 100)
Rolls == 1..100

\* a quality test that takes every roll up to 2 for an outage
QualityWide(roll) ==
    IF roll <= 2 THEN [data_quality |-> "OUTAGE", is_outage |-> TRUE]
    ELSE IF roll >= 98 THEN [data_quality |-> "ANOMALY", is_outage |-> FALSE]
    ELSE [data_quality |-> "VALID", is_outage |-> FALSE]

\* data_quality and is_outage from quality_roll
Quality(roll) ==
    IF roll <= 1 THEN [data_quality |-> "OUTAGE", is_outage |-> TRUE]
    ELSE IF roll >= 98 THEN [data_quality |-> "ANOMALY", is_outage |-> FALSE]
    ELSE [data_quality |-> "VALID", is_outage |-> FALSE]

\* One call of generate_ami_reading(): meter is the meter's segment, base
\* and roll what the random draws give.  The reading keeps the draws beside
\* the fields the function returns; usage_kwh is in ten-thousandths.
Generate(meter, base, roll) ==
    LET segment == SegmentOf(meter)
        q == Quality(roll)
    IN
    /\ ~reading.made
    /\ reading' = [made |-> TRUE, meter |-> meter, base |-> base,
                   roll |-> roll,
                   customer_segment |-> segment,
                   usage_kwh |-> Round4(base * Multiplier(segment)),
                   data_quality |-> q.data_quality,
                   is_outage |-> q.is_outage]
    /\ UNCHANGED <<clock, jobs, workers, sess, boto3, config, tracking,
                   ingest>>
    /\ UNCHANGED stepwise

\* one call is followed
SynthNext ==
    /\ ~reading.made
    /\ \E meter \in MeterSegments, hour \in Hours, roll \in Rolls :
          \E base \in BaseUsages(hour) : Generate(meter, base, roll)

SynthSpec == Init /\ [][SynthNext]_vars

-----------------------------------------------------------------------------
(* SnowpipeStreamingConfig (snowpipe_streaming_impl.py) *)

\* the fields __post_init__ looks at
Fields == {"account", "user", "role", "database", "schema"}

\* the field defaults of the dataclass, which are also the defaults of the
\* os.environ.get calls
FieldDefault(f) ==
    CASE f = "role" -> "SYSADMIN"
      [] f = "database" -> "SI_DEMOS"
      [] f = "schema" -> "PRODUCTION"
      [] OTHER -> ""

\* what the caller passes for a field: nothing, the empty string, a value
NotPassed == "<not passed>"

ArgValues == {NotPassed, "", "GIVEN"}

\* the environment variable of a field: not set, or set to a value
NotSet == "<not set>"

EnvValues == {NotSet, "FROM_ENV"}

\* the generated __init__: a field not passed takes its default
Constructed(args) ==
    [f \in Fields |-> IF args[f] = NotPassed THEN FieldDefault(f) ELSE args[f]]

\* __post_init__ on the object __init__ has filled: `if not self.<field>`
\* asks the environment, with the default for a variable that is not set
PostInit(args, env) ==
    LET c == Constructed(args) IN
    [f \in Fields |->
        IF c[f] = ""
        THEN IF env[f] # NotSet THEN env[f] ELSE FieldDefault(f)
        ELSE c[f]]

\* SnowpipeStreamingConfig(**args) in environment env
Build(args, env) ==
    /\ ~config.built
    /\ config' = [built |-> TRUE, args |-> args, env |-> env,
                  fields |-> PostInit(args, env)]
    /\ UNCHANGED <<clock, jobs, workers, sess, boto3, reading, tracking,
                   ingest>>
    /\ UNCHANGED stepwise

\* one construction is followed
ConfigNext ==
    /\ ~config.built
    /\ \E args \in [Fields -> ArgValues], env \in [Fields -> EnvValues] :
          Build(args, env)

ConfigSpec == Init /\ [][ConfigNext]_vars

-----------------------------------------------------------------------------
(* The tracking table STREAMING_JOBS and the restart of the process *)

\* The rows of the tracking table are [job, status].  The steps of the
\* workers touch nothing of the table and are not followed here: a worker
\* thread stays where start_stream started it.

\* start_stream: the tracking row is inserted with status RUNNING, then the
\* record is put in the registry and the thread started; u is what the
\* warehouse answers to the DDL and the INSERT, and an exception there ends
\* the request with an error message and no job.
TrackedStart(kind, u) ==
    LET j == JobIdAt(clock)
        w == Len(workers) + 1
    IN
    /\ Len(workers) < MaxStarts
    /\ Len(tracking) < MaxStarts + 1
    /\ sess = "live"
    /\ kind = "raw" => boto3
    /\ IF u = "ok"
       THEN /\ tracking' = Append(tracking, [job |-> j, status |-> "RUNNING"])
            /\ jobs' = [k \in DOMAIN jobs \cup {j} |->
                          IF k = j THEN NewRecord(kind, w) ELSE jobs[k]]
            /\ workers' = Append(workers,
                  [job |-> j, kind |-> kind, meters |-> RowsPerBatch + 1,
                   source |-> "SYNTHETIC", fleet |-> 0, matched |-> FALSE,
                   pc |-> "init", pipes |-> FALSE, since |-> 0,
                   refreshes |-> 0, temp |-> 0])
       ELSE UNCHANGED <<tracking, jobs, workers>>
    /\ UNCHANGED <<clock, sess, boto3, reading, config, ingest>>
    /\ UNCHANGED stepwise

\* UPDATE STREAMING_JOBS SET STATUS = 'STOPPED' WHERE JOB_ID = j
MarkedStopped(rows, j) ==
    [i \in DOMAIN rows |->
        IF rows[i].job = j THEN [rows[i] EXCEPT !.status = "STOPPED"]
        ELSE rows[i]]

\* stop_streaming_job with its tracking update: r is what
\* get_valid_session() gives, u what the warehouse answers to the UPDATE;
\* every exception is caught
TrackedStop(j, r, u) ==
    /\ r \in SessionResults(sess)
    /\ jobs' = StoppingWrite(jobs, j)
    /\ sess' = r.s
    /\ tracking' = IF r.res = "session" /\ u = "ok"
                   THEN MarkedStopped(tracking, j)
                   ELSE tracking
    /\ UNCHANGED <<clock, workers, boto3, reading, config, ingest>>
    /\ UNCHANGED stepwise

\* a reconciliation that marks nothing
StaleNever(status) == status

\* SET STATUS = 'STALE' ... WHERE STATUS = 'RUNNING'
Stale(status) == IF status = "RUNNING" THEN "STALE" ELSE status

\* the reconciliation UPDATE of lifespan()
Reconciled(rows) ==
    [i \in DOMAIN rows |-> [rows[i] EXCEPT !.status = Stale(@)]]

\* The process is restarted and lifespan() runs up to its yield: the module
\* globals are as imported (the registry empty, no thread), the session is
\* built, and the reconciliation UPDATE is issued; u is what the warehouse
\* answers to it, and an exception is logged and startup goes on.  A
\* start-up whose session cannot be built serves no request and is not a
\* state of the model.
Restart(u) ==
    /\ jobs' = [j \in {} |-> NewRecord("table", 0)]
    /\ workers' = << >>
    /\ sess' = "live"
    /\ provider' = Started
    /\ lock' = "free"
    /\ threads' = [t \in Threads |-> "idle"]
    /\ tracking' = IF u = "ok" THEN Reconciled(tracking) ELSE tracking
    /\ UNCHANGED <<clock, boto3, reading, config, ingest>>

TrackedStarts == \E kind \in Kinds, u \in Outcomes : TrackedStart(kind, u)

TrackedStops ==
    \E j \in JobIds, r \in SessionResults(sess), u \in Outcomes :
        TrackedStop(j, r, u)

Restarts == \E u \in Outcomes : Restart(u)

RestartNext == Tick \/ TrackedStarts \/ TrackedStops \/ Restarts

RestartSpec == Init /\ [][RestartNext]_vars

-----------------------------------------------------------------------------
(* Properties *)

Status(j) == jobs[j].status

\* the worker threads that have not returned
Live(w) == workers[w].pc # "done"

\* C1: a job's status only moves forward along
\* {STARTING, RUNNING} -> STOPPING -> STOPPED or -> FAILED; no step of
\* start_stream, stop_streaming_job or a worker takes it backward.
Forward(a, b) ==
    \/ a = b
    \/ a \in {"STARTING", "RUNNING"}
    \/ a = "STOPPING" /\ b \in {"STOPPED", "FAILED"}

StatusOnlyForward ==
    [][\A j \in DOMAIN jobs :
          j \in DOMAIN jobs' /\ Forward(jobs[j].status, jobs'[j].status)]_vars

\* C2: once stop_streaming_job has marked a job (the status is STOPPING or
\* STOPPED), its status is never RUNNING again, also when the stop came
\* before the worker's first registry write.
NeverRunningAfterStop ==
    [][\A j \in DOMAIN jobs :
          jobs[j].status \in {"STOPPING", "STOPPED"}
              => jobs'[j].status # "RUNNING"]_vars

\* C3: a job whose status is STOPPING has a worker that will observe it at
\* the top of its loop and set STOPPED: no job is STOPPING while every
\* worker thread started for it has returned.
StoppingHasWorker ==
    \A j \in DOMAIN jobs :
        Status(j) = "STOPPING"
            => \E w \in DOMAIN workers : workers[w].job = j /\ Live(w)

\* C4: stop_streaming_job on a job whose status is STOPPED changes nothing
\* in the registry.
StopOnStoppedIsNoOp ==
    [][\A j \in DOMAIN jobs, after \in SessionAfter(sess) :
          (Status(j) = "STOPPED" /\ StopJob(j, after)) => jobs' = jobs]_vars

\* C5: stop_streaming_job on a job id the registry does not hold creates no
\* record and leaves every record, and every worker, as it was.
StopOnAbsentIsNoOp ==
    [][\A j \in JobIds, after \in SessionAfter(sess) :
          (~InRegistry(j) /\ StopJob(j, after))
              => (jobs' = jobs /\ workers' = workers)]_vars

\* a stop on an absent id has run: the session was closed by a handler's
\* refresh while the only worker has not yet made a call and its record is
\* still as start_stream inserted it, so the handler was not a stop of
\* that job
StopOnAbsentDone ==
    /\ sess = "closed"
    /\ Len(workers) = 1
    /\ workers[1].pc = "init"
    /\ InRegistry(workers[1].job)
    /\ Status(workers[1].job) = "STARTING"
    /\ \E j \in JobIds : ~InRegistry(j)

\* C6: no two live worker threads operate on the same job id, whatever the
\* seconds the start_stream calls fall in.
OneWorkerPerJob ==
    \A w1, w2 \in DOMAIN workers :
        (w1 # w2 /\ Live(w1) /\ Live(w2))
            => workers[w1].job # workers[w2].job

\* C7: no stats counter of a record is ever lower than it was.
NotLower(a, b) ==
    /\ b.total_rows >= a.total_rows
    /\ b.errors >= a.errors
    /\ (HasKey(a.batches_sent) /\ HasKey(b.batches_sent))
           => b.batches_sent >= a.batches_sent
    /\ (HasKey(a.files_written) /\ HasKey(b.files_written))
           => b.files_written >= a.files_written

CountersNeverDecrease ==
    [][\A j \in DOMAIN jobs :
          j \in DOMAIN jobs' /\ NotLower(jobs[j].stats, jobs'[j].stats)]_vars

\* C8: while the destination is unreachable at delivery time (the delivery
\* call raises, or the table and internal-stage sinks get no session), every
\* loop iteration of a job with a non-empty fleet increases stats.errors and
\* leaves the status as it was.
Unreachable(kind, res, d) ==
    IF kind \in {"table", "internal"}
    THEN res # "session" \/ d = "raise"
    ELSE d = "raise"

ErrorsGrowWhileUnreachable ==
    [][\A w \in DOMAIN workers, r \in SessionResults(sess), d \in Outcomes :
          LET me == workers[w] IN
          (me.pc = "deliver" /\ me.meters > 0
              /\ Unreachable(me.kind, r.res, d) /\ WorkerDeliver(w, r, d))
              => /\ jobs'[me.job].stats.errors > jobs[me.job].stats.errors
                 /\ jobs'[me.job].status = jobs[me.job].status]_vars

\* C9: a worker that has entered its loop changes the status only from
\* STOPPING to STOPPED, and leaves the loop only on observing STOPPING (or a
\* missing record) at the top of an iteration, so an exception caught in the
\* loop neither ends it nor changes the status; a status becomes FAILED only
\* in a step of a worker that has not entered its loop, which then returns.
InLoop(pc) == AtLoopTop(pc) \/ pc = "deliver"

BeforeLoop(pc) == pc \in {"init", "stage", "setup"}

LoopEndsOnlyOnStop ==
    [][/\ \A w \in DOMAIN workers :
             LET me == workers[w]
                 j == me.job
             IN (InLoop(me.pc) /\ workers'[w].pc # me.pc)
                 => /\ InLoop(workers'[w].pc) \/ workers'[w].pc = "done"
                    /\ InRegistry(j)
                          => /\ j \in DOMAIN jobs'
                             /\ \/ jobs'[j].status = jobs[j].status
                                \/ /\ jobs[j].status = "STOPPING"
                                   /\ jobs'[j].status = "STOPPED"
                                   /\ workers'[w].pc = "done"
                    /\ workers'[w].pc = "done"
                          => /\ AtLoopTop(me.pc)
                             /\ \/ ~InRegistry(j)
                                \/ jobs[j].status = "STOPPING"
       /\ \A j \in DOMAIN jobs' :
             (jobs'[j].status = "FAILED"
                 /\ (j \in DOMAIN jobs => jobs[j].status # "FAILED"))
                 => \E w \in DOMAIN workers :
                        /\ workers[w].job = j
                        /\ BeforeLoop(workers[w].pc)
                        /\ workers'[w].pc = "done"]_vars

\* a worker has caught an exception in its loop and goes on: it waits for
\* its next iteration, the error is counted, the job is RUNNING
LoopSurvivedError ==
    \E w \in DOMAIN workers :
        /\ workers[w].pc = "backoff"
        /\ Status(workers[w].job) = "RUNNING"
        /\ jobs[workers[w].job].stats.errors > 0

\* C10 as stated: in every sink variant a set-up that finds its destination
\* unreachable (the S3 set-up raises; the table and internal-stage sinks get
\* no session) sets FAILED and ends the worker before its loop.
SetupFails(kind, s3, res) ==
    IF kind \in {"raw", "external"} THEN s3 = "raise" ELSE res # "session"

SetupFailureFailsEverySink ==
    [][\A w \in DOMAIN workers, s3 \in Outcomes, r \in SessionResults(sess) :
          LET me == workers[w] IN
          (me.pc = "setup" /\ SetupFails(me.kind, s3, r.res)
              /\ WorkerSetup(w, s3, r))
              => /\ jobs'[me.job].status = "FAILED"
                 /\ workers'[w].pc = "done"]_vars

\* C10 amended: in the two S3-backed sinks a set-up failure (boto3 missing,
\* no bucket for the stage, the S3 client or bucket unreachable) sets FAILED
\* and ends the worker before its loop: the step adds nothing to total_rows
\* and a worker that has returned never steps again.
S3SetupFailed(w) ==
    LET me == workers[w] IN
    /\ me.kind \in {"raw", "external"}
    /\ \/ ~boto3 /\ WorkerInit(w)
       \/ /\ me.pc = "stage"
          /\ \E r1 \in SessionResults(sess) :
                \E r2 \in SessionResults(r1.s), found \in BOOLEAN,
                   pipes \in BOOLEAN :
                   ~(r2.res = "session" /\ found)
                       /\ WorkerStage(w, r1, r2, found, pipes)
       \/ /\ me.pc = "setup"
          /\ \E r \in SessionResults(sess) : WorkerSetup(w, "raise", r)

S3SetupFailureFails ==
    [][\A w \in DOMAIN workers :
          LET j == workers[w].job IN
          /\ S3SetupFailed(w)
                => /\ jobs'[j].status = "FAILED"
                   /\ jobs'[j].stats.total_rows = jobs[j].stats.total_rows
                   /\ workers'[w].pc = "done"
          /\ workers[w].pc = "done" => workers'[w] = workers[w]]_vars

\* an S3-backed worker with boto3 present has failed in the stage look-up or
\* the S3 set-up: it has returned, the job is FAILED with no rows
S3SetupFailureSeen ==
    \E w \in DOMAIN workers :
        /\ boto3
        /\ workers[w].kind \in {"raw", "external"}
        /\ workers[w].pc = "done"
        /\ Status(workers[w].job) = "FAILED"
        /\ jobs[workers[w].job].stats.total_rows = 0

\* C11: in a table-sink job with a non-empty fleet, every loop iteration
\* whose session is obtained and whose INSERT is accepted adds
\* min(batch_size, fleet size) to total_rows and 1 to batches_sent and
\* leaves errors as it was.
TableIterationCounts ==
    [][\A w \in DOMAIN workers, r \in SessionResults(sess) :
          LET me == workers[w]
              j == me.job
          IN (me.kind = "table" /\ me.pc = "deliver" /\ me.fleet > 0
                 /\ r.res = "session" /\ WorkerDeliver(w, r, "ok"))
              => /\ jobs'[j].stats.total_rows
                       = jobs[j].stats.total_rows
                            + Min(RowsPerBatch, me.fleet)
                 /\ jobs'[j].stats.batches_sent
                       = jobs[j].stats.batches_sent + 1
                 /\ jobs'[j].stats.errors = jobs[j].stats.errors]_vars

\* C12 as stated: in the external-stage sink with discovered pipes, the
\* fifth successful upload since the last refresh issues one round of
\* refreshes and resets the counter to 0.
RefreshEveryFiveUploads ==
    [][\A w \in DOMAIN workers, r \in SessionResults(sess) :
          LET me == workers[w] IN
          (me.kind = "external" /\ me.pc = "deliver" /\ me.pipes
              /\ me.fleet > 0 /\ me.since + 1 = REFRESH_EVERY_N_FILES
              /\ LoopPass(w, r, "ok", SoloBudget))
          => /\ workers'[w].since = 0
             /\ workers'[w].refreshes = me.refreshes + 1]_vars

\* an upload of worker w counted in the job's record by this step
Counted1(w) ==
    LET j == workers[w].job IN
    jobs'[j].stats.files_written = jobs[j].stats.files_written + 1

\* C12, amended: a failed upload leaves the counter alone; a counted upload
\* adds 1 to it, and when that makes 5 or more with pipes discovered and
\* get_valid_session() returns a session, one round of refreshes is issued
\* and the counter is reset to 0; otherwise no refresh is issued and the
\* counter keeps its new value.
RefreshWhenSessionReturned ==
    [][\A w \in DOMAIN workers, r \in SessionResults(sess), d \in Outcomes :
          LET me == workers[w] IN
          (me.kind = "external" /\ me.pc = "deliver"
              /\ LoopPass(w, r, d, SoloBudget))
          => /\ d = "raise" => /\ workers'[w].since = me.since
                               /\ workers'[w].refreshes = me.refreshes
             /\ Counted1(w) =>
                  IF me.pipes /\ me.since + 1 >= REFRESH_EVERY_N_FILES
                        /\ r.res = "session"
                  THEN /\ workers'[w].since = 0
                       /\ workers'[w].refreshes = me.refreshes + 1
                  ELSE /\ workers'[w].since = me.since + 1
                       /\ workers'[w].refreshes = me.refreshes]_vars

\* a refresh has been issued and the counter reset
RefreshIssued ==
    \E w \in DOMAIN workers :
        /\ workers[w].kind = "external"
        /\ workers[w].refreshes = 1
        /\ workers[w].since = 0

\* C13: for every meter count and every source the fleet load of a worker
\* whose S3 set-up (if any) succeeded gives at most that many meters and
\* the worker enters its loop with the job's record untouched; without a
\* session, with an unknown or synthetic source, a failing query or an
\* empty catalog the fleet is the synthetic one of exactly that many meters.
FleetResolved ==
    [][\A w \in DOMAIN workers, s3 \in Outcomes,
          r \in SessionResults(sess) :
          \A c \in CatalogAnswers(workers[w].source) :
          LET me == workers[w] IN
          (me.pc = "setup"
              /\ ~(me.kind \in {"raw", "external"} /\ s3 = "raise")
              /\ WorkerSetupFrom(w, s3, r, c))
          => /\ workers'[w].pc = "loop"
             /\ jobs' = jobs
             /\ workers'[w].fleet <= me.meters
             /\ (r.res # "session" \/ ~KnownSource(me.source)
                    \/ c.q = "raise" \/ c.rows = 0)
                  => /\ workers'[w].fleet = me.meters
                     /\ ~workers'[w].matched]_vars

\* a worker asked for meters of a known catalog runs its loop on synthetic
\* ones
FleetFellBack ==
    \E w \in DOMAIN workers :
        /\ KnownSource(workers[w].source)
        /\ workers[w].meters > 0
        /\ workers[w].pc = "deliver"
        /\ workers[w].fleet = workers[w].meters
        /\ ~workers[w].matched

\* C14: a call whose probe failed with the token-expiry signature closes
\* the handle that probe failed on, and returns the handle it then built,
\* which is the singleton.
ExpiryClosesStaleReturnsNew ==
    [][\A t \in Callers :
          /\ (\E c \in Outcomes : SessionClose(t, c))
                => provider.singleton = Caller(t).probed
          /\ (Caller(t).probed # NoHandle /\ SessionReturn(t))
                => /\ provider'.callers[t].res = Caller(t).made
                   /\ provider.handles[Caller(t).made] = "live"]_vars

Leaked(h) == h # provider.singleton /\ provider.handles[h] = "live"

LeakIsPermanent ==
    [][\A h \in DOMAIN provider.handles :
          Leaked(h) => /\ h # provider'.singleton
                       /\ provider'.handles[h] = "live"]_vars

\* two callers found the first session expired and each built a
\* replacement: u's probe failed on the first session, which was replaced
\* before u built its own; u's is the singleton, the other replacement is
\* open and nothing refers to it
TwoReplacementsOneLeaked ==
    \E u \in Callers, h \in DOMAIN provider.handles :
        /\ Caller(u).pc = "return"
        /\ Caller(u).probed = Started.singleton
        /\ provider.handles[Caller(u).probed] = "closed"
        /\ provider.singleton = Caller(u).made
        /\ h \notin {Caller(u).probed, Caller(u).made}
        /\ Leaked(h)

\* C18: every step that raises a job's total_rows applies the whole stats
\* update of a delivery: the batch counter of the job's sink rises by one
\* with it, so no reader of the registry finds the update half applied.
StatsUpdateIsWhole ==
    [][\A j \in DOMAIN jobs :
          (j \in DOMAIN jobs'
              /\ jobs'[j].stats.total_rows > jobs[j].stats.total_rows)
          => \/ jobs'[j].stats.batches_sent = jobs[j].stats.batches_sent + 1
             \/ jobs'[j].stats.files_written
                   = jobs[j].stats.files_written + 1]_vars

\* C19: a thread that is in a delivery, session, warehouse or storage call
\* or in a sleep does not hold streaming_lock, and whoever holds it is
\* inside a locked region, which it leaves by its next step; so a thread
\* waiting for the lock never waits for a blocked one.
LockNeverHeldAcrossIO ==
    \A t \in Threads :
        /\ threads[t] \in BlockingPcs => lock # t
        /\ lock = t => threads[t] \in LockedPcs

\* stop_streaming_job is inside its locked region while the worker is in its
\* delivery call
StopLockedDuringDelivery ==
    /\ threads["worker"] = "deliver"
    /\ threads["stop"] = "stop_locked"
    /\ lock = "stop"

\* C20: a pass of the internal-stage worker's loop whose os.unlink works
\* leaves no temp file behind, whether the PUT succeeds, the PUT fails or a
\* write to the file fails.
TempFileAlwaysDeleted ==
    [][\A w \in DOMAIN workers, r \in SessionResults(sess),
          d \in {"ok", "raise", "write_raise"} :
          (workers[w].kind = "internal" /\ workers[w].pc = "deliver"
              /\ LoopPass(w, r, d, SoloBudget))
          => workers'[w].temp = workers[w].temp]_vars

\* C17: the job stays RUNNING; an accepted INSERT raises total_rows; and a
\* worker whose probe met the expired token delivers a batch later on, in
\* this or a later iteration, with no stop or start in between.
ExpiryRecovered ==
    /\ [](jobs[TheJob].status = "RUNNING")
    /\ [][(Caller(TheWorker).out = "session"
             /\ provider.handles[Caller(TheWorker).res] = "live"
             /\ Counted(jobs[TheJob].stats) < MaxEvents
             /\ LoopDelivers(TheWorker))
          => jobs'[TheJob].stats.total_rows
                > jobs[TheJob].stats.total_rows]_vars
    /\ (Caller(TheWorker).pc = "close")
          ~> (Caller(TheWorker).out = "delivered")

\* the first session has been replaced and the worker's INSERT went
\* through on the newest one
DeliveredAfterExpiry ==
    /\ Caller(TheWorker).res = Len(provider.handles)
    /\ Caller(TheWorker).res # Started.singleton
    /\ Caller(TheWorker).out = "delivered"
    /\ jobs[TheJob].status = "RUNNING"
    /\ jobs[TheJob].stats.total_rows > 0

\* C21: in every sink a delivery call that raises adds exactly one to
\* stats.errors, leaves total_rows and the batch and file counters as they
\* were, and the worker then waits the fixed backoff, not the cadence sleep.
DeliveryAttempted(kind, fleet, res) ==
    /\ fleet > 0
    /\ kind \in {"table", "internal"} => res = "session"

FailedDeliveryBacksOff ==
    [][\A w \in DOMAIN workers, r \in SessionResults(sess) :
          LET me == workers[w]
              j == me.job
          IN (me.pc = "deliver" /\ DeliveryAttempted(me.kind, me.fleet, r.res)
                 /\ WorkerDeliver(w, r, "raise"))
              => /\ jobs'[j].stats.errors = jobs[j].stats.errors + 1
                 /\ jobs'[j].stats.total_rows = jobs[j].stats.total_rows
                 /\ jobs'[j].stats.batches_sent = jobs[j].stats.batches_sent
                 /\ jobs'[j].stats.files_written = jobs[j].stats.files_written
                 /\ workers'[w].pc = "backoff"]_vars

\* C22: the record start_stream has inserted is in the registry in every
\* later state, whatever the worker, stop_streaming_job and
\* get_streaming_status do, and the worker thread, started after the insert,
\* finds it from its first registry access on.
RecordStaysPresent ==
    /\ [][InRegistry(TheJob) => TheJob \in DOMAIN jobs']_vars
    /\ [](threads["worker"] # "idle" => InRegistry(TheJob))

\* the worker has returned after a stop and a status query reads the
\* registry: the record is there, STOPPED
StoppedRecordRead ==
    /\ InRegistry(TheJob)
    /\ Status(TheJob) = "STOPPED"
    /\ threads["worker"] = "done"
    /\ threads["status"] = "status_locked"

\* C23: a reading's data_quality is OUTAGE with is_outage set for a quality
\* roll of at most 1, ANOMALY without is_outage for a roll of at least 98,
\* VALID without is_outage for every roll between; so data_quality is one of
\* the three and is_outage holds exactly for OUTAGE.
QualityFollowsRoll ==
    reading.made =>
        /\ reading.roll <= 1
              => reading.data_quality = "OUTAGE" /\ reading.is_outage
        /\ reading.roll >= 98
              => reading.data_quality = "ANOMALY" /\ ~reading.is_outage
        /\ (reading.roll > 1 /\ reading.roll < 98)
              => reading.data_quality = "VALID" /\ ~reading.is_outage
        /\ reading.data_quality \in {"VALID", "ANOMALY", "OUTAGE"}
        /\ reading.is_outage <=> reading.data_quality = "OUTAGE"

\* the one roll in a hundred that gives an outage
OutageRolled ==
    /\ reading.made
    /\ reading.roll = 1
    /\ reading.data_quality = "OUTAGE"
    /\ reading.is_outage

\* the multiplier the segment of a meter stands for
SegmentFactor(meter) ==
    CASE meter = "INDUSTRIAL" -> 15
      [] meter = "COMMERCIAL" -> 5
      [] OTHER -> 1

\* C24 as stated: usage_kwh is the base usage times 15, 5 or 1 by the
\* meter's segment (1 for a missing or unknown segment), and positive.
\* usage_kwh is in ten-thousandths, base in hundred-thousandths of a kWh.
UsageIsBaseTimesFactor ==
    reading.made =>
        /\ 10 * reading.usage_kwh = reading.base * SegmentFactor(reading.meter)
        /\ reading.usage_kwh > 0

\* C24, amended: usage_kwh is that product rounded to four decimals, so it
\* is within half a ten-thousandth of the product, and it is positive for
\* every base usage the synthesizer draws.
UsageIsRoundedProduct ==
    reading.made =>
        LET exact == reading.base * SegmentFactor(reading.meter)
            diff == 10 * reading.usage_kwh - exact
        IN /\ diff >= -5 /\ diff <= 5
           /\ reading.usage_kwh > 0

\* a meter without a segment drew 0.30002 kWh and reports 0.3000
UsageRounded ==
    /\ reading.made
    /\ reading.meter = "missing"
    /\ reading.base = 30002
    /\ reading.usage_kwh = 3000

\* C26: the configuration keeps every field the caller passes, and takes a
\* field the caller does not pass from its environment variable when that
\* is set and from the built-in default when it is not.
ConfigLoadsEnvironment ==
    config.built =>
        \A f \in Fields :
            config.fields[f] =
                IF config.args[f] # NotPassed THEN config.args[f]
                ELSE IF config.env[f] # NotSet THEN config.env[f]
                ELSE FieldDefault(f)

NoRunningRow(rows) == \A i \in DOMAIN rows : rows[i].status # "RUNNING"

\* C25 as stated: a restart leaves the registry empty and, before a request
\* is served, no row of the tracking table with status RUNNING.
RestartMarksRunningStale ==
    [][\A u \in Outcomes :
          Restart(u) => /\ DOMAIN jobs' = {}
                        /\ workers' = << >>
                        /\ NoRunningRow(tracking')]_vars

\* C25, amended: a restart leaves the registry empty and no worker; when
\* the reconciliation statement succeeds every row that was RUNNING is STALE
\* and every other row as it was, and when it raises the rows are left as
\* they were and the service starts all the same.
RestartReconcilesWhenUpdateWorks ==
    [][\A u \in Outcomes :
          Restart(u)
          => /\ DOMAIN jobs' = {}
             /\ workers' = << >>
             /\ DOMAIN tracking' = DOMAIN tracking
             /\ u = "raise" => tracking' = tracking
             /\ u = "ok" =>
                  \A i \in DOMAIN tracking :
                      /\ tracking'[i].job = tracking[i].job
                      /\ tracking'[i].status =
                            IF tracking[i].status = "RUNNING"
                            THEN "STALE" ELSE tracking[i].status]_vars

\* after a restart the registry is empty, the row of the job that was
\* running is STALE and the row of the job that was stopped is STOPPED
RestartedWithStaleRow ==
    /\ DOMAIN jobs = {}
    /\ workers = << >>
    /\ \E i, k \in DOMAIN tracking :
          /\ tracking[i].status = "STALE"
          /\ tracking[k].status = "STOPPED"

\* the first worker's job is marked STOPPING
StopMarked ==
    /\ Len(workers) >= 1
    /\ InRegistry(workers[1].job)
    /\ Status(workers[1].job) = "STOPPING"

\* the first worker is in the try block of its loop, past the stop check
Delivering == Len(workers) >= 1 /\ workers[1].pc = "deliver"

\* C27: once stop_streaming_job has marked a job STOPPING, a worker that is
\* not in a delivery at that moment never starts one, and a worker that is
\* in one completes it and starts no other; so at most one batch is counted
\* after the stop.
NoDeliveryStartsAfterStop ==
    /\ []((StopMarked /\ ~Delivering) => [](~Delivering))
    /\ []((StopMarked /\ Delivering)
             => [](~Delivering => [](~Delivering)))

\* caller u has been given handle h and has not used it yet, or is about to
\* be given the handle h it has just built
Holds(u, h) ==
    \/ /\ Caller(u).pc = "idle"
       /\ Caller(u).out = "session"
       /\ Caller(u).res = h
    \/ /\ Caller(u).pc = "return"
       /\ Caller(u).made = h

\* C28: the refresh of one caller closes no handle that another caller has
\* been given for its pending statement or has just built; the one handle
\* it may close under another caller is the handle its own probe found
\* expired.
RefreshSparesHandlesInUse ==
    [][\A t \in Callers :
          LET g == Closes(provider.singleton, Caller(t).probed) IN
          SessionClose(t, "ok")
          => \A u \in Callers \ {t} :
                Holds(u, g) => g = Caller(t).probed]_vars

\* C29: a step that changes a job's record is the start that inserts it, a
\* step of a worker of that job, or a stop_streaming_job for it, which
\* leaves its stats and every other record alone; so a failure or a stop of
\* one job changes no status and no stats of another.
WritesStayInOwnRecord ==
    [][\A j \in DOMAIN jobs :
          (j \in DOMAIN jobs' /\ jobs'[j] # jobs[j])
          => \/ Len(workers') > Len(workers)
             \/ \E w \in DOMAIN workers :
                   /\ workers'[w] # workers[w]
                   /\ workers[w].job = j
                   /\ \A k \in DOMAIN jobs \ {j} : jobs'[k] = jobs[k]
             \/ /\ workers' = workers
                /\ jobs'[j].stats = jobs[j].stats
                /\ \A k \in DOMAIN jobs \ {j} : jobs'[k] = jobs[k]]_vars

\* one job has failed in its set-up while another is RUNNING with no error
\* counted
OneFailedOtherRunning ==
    \E j, k \in DOMAIN jobs :
        /\ Status(j) = "FAILED"
        /\ Status(k) = "RUNNING"
        /\ jobs[k].stats.errors = 0

\* the batch counter of a record, or its file counter where it has no batch
\* counter
Deliveries(st) ==
    IF HasKey(st.batches_sent) THEN st.batches_sent ELSE st.files_written

\* C30: in every state of the registry the stats of a record reflect whole
\* deliveries only: rows are counted only with a batch or file counted, a
\* table-sink job's total_rows is its batches_sent times
\* min(batch_size, fleet size), and in every sink a last-activity timestamp
\* is set exactly when the batch or file counter is above 0.
StatsReflectWholeDeliveries ==
    /\ \A w \in DOMAIN workers :
          LET j == workers[w].job IN
          (workers[w].kind = "table" /\ ~BeforeLoop(workers[w].pc)
              /\ InRegistry(j) /\ HasKey(jobs[j].stats.batches_sent))
          => jobs[j].stats.total_rows
                = jobs[j].stats.batches_sent
                     * Min(RowsPerBatch, workers[w].fleet)
    /\ \A j \in DOMAIN jobs :
          LET st == jobs[j].stats IN
          /\ st.total_rows > 0 => Deliveries(st) > 0
          /\ (st.last_batch_time \/ st.last_file_time) <=> Deliveries(st) > 0

\* C31: with an empty fleet (meter count 0) and a reachable destination (a
\* session is returned and the delivery call does not raise), a loop
\* iteration of any of the four sinks synthesizes its batch without raising:
\* stats.errors stays as it was.
EmptyFleetNeverErrs ==
    [][\A w \in DOMAIN workers, r \in SessionResults(sess) :
          LET me == workers[w]
              j == me.job
          IN (me.pc = "deliver" /\ me.fleet = 0 /\ r.res = "session"
                 /\ WorkerDeliver(w, r, "ok"))
              => jobs'[j].stats.errors = jobs[j].stats.errors]_vars

-----------------------------------------------------------------------------
(* The pipe refresh of the external-stage worker, statement by statement *)

\* associated_pipes as the discovery fills it: the pipes of DB.PRODUCTION
\* before those of DB.DEV
AssociatedPipes == <<"PRODUCTION.PIPE", "DEV.PIPE">>

Range(s) == {s[i] : i \in DOMAIN s}

\* a round that ends at the first pipe whose refresh raises
RestAfterAborting(todo, o) == IF o = "raise" THEN << >> ELSE Tail(todo)

\* `for pipe_name in associated_pipes:` after one pipe; the except inside
\* the loop body only logs, so the loop goes on whatever the statement did
RestAfter(todo, o) == Tail(todo)

\* an external-stage worker in its loop with the pipes it discovered; the
\* round in progress is kept with the thread's locals: todo are the pipes
\* the for loop has not reached yet, issued the pipes an ALTER PIPE ...
\* REFRESH was sent for, broken those whose statement raised
RefreshWorker(found) ==
    [job |-> TheJob, kind |-> "external", meters |-> RowsPerBatch + 1,
     source |-> "SYNTHETIC", fleet |-> RowsPerBatch + 1, matched |-> FALSE,
     pc |-> "loop", pipes |-> found # << >>, since |-> 0, refreshes |-> 0,
     temp |-> 0, associated |-> found, todo |-> << >>, issued |-> {},
     broken |-> {}]

RefreshInit ==
    /\ clock = 0
    /\ jobs = [j \in {TheJob} |->
                 [thread |-> 1, status |-> "RUNNING", kind |-> "external",
                  stats |-> WorkerStats("external")]]
    /\ \E n \in 0..Len(AssociatedPipes) :
          workers = <<RefreshWorker(SubSeq(AssociatedPipes, 1, n))>>
    /\ sess = "live"
    /\ boto3 = TRUE
    /\ provider = Started
    /\ lock = "free"
    /\ threads = [t \in Threads |-> "idle"]
    /\ reading = NoReading
    /\ config = NoConfig
    /\ tracking = NoTracking
    /\ ingest = NoIngest

\* the upload and its stats update; a counted upload advances
\* files_since_last_refresh and, with pipes and N files, enters the refresh
Upload(w, d) ==
    LET me == workers[w]
        j == me.job
        it == Iteration(me.kind, me.fleet, jobs[j].stats, "session", d)
        after == StatsWrite(jobs, j, it.stats)
    IN
    /\ me.pc = "deliver"
    /\ InRegistry(j)
    /\ SumCounted(after, DOMAIN after) <= SoloBudget
    /\ jobs' = after
    /\ workers' = [workers EXCEPT
                     ![w].since = IF it.sent THEN @ + 1 ELSE @,
                     ![w].pc = IF it.sent /\ RefreshDue(me.since, me.pipes)
                               THEN "session" ELSE it.next]
    /\ UNCHANGED <<clock, sess, boto3>>
    /\ UNCHANGED stepwise
    /\ UNCHANGED aside

\* refresh_session = get_valid_session(): without a session (None, or the
\* call raises into the handler that only logs) the round is skipped and
\* the counter keeps its value
RefreshSession(w, r) ==
    LET me == workers[w] IN
    /\ me.pc = "session"
    /\ r \in SessionResults(sess)
    /\ sess' = r.s
    /\ workers' = IF r.res = "session"
                  THEN [workers EXCEPT ![w].pc = "refresh",
                                       ![w].todo = me.associated,
                                       ![w].issued = {},
                                       ![w].broken = {}]
                  ELSE [workers EXCEPT ![w].pc = "sleep"]
    /\ UNCHANGED <<clock, jobs, boto3>>
    /\ UNCHANGED stepwise
    /\ UNCHANGED aside

\* ALTER PIPE <pipe> REFRESH for the next pipe of the round, o what the
\* statement does; after the last pipe the counter is reset and the worker
\* goes on to the cadence sleep
RefreshPipe(w, o) ==
    LET me == workers[w]
        rest == RestAfter(me.todo, o)
    IN
    /\ me.pc = "refresh"
    /\ me.todo # << >>
    /\ workers' = [workers EXCEPT
                     ![w].todo = rest,
                     ![w].issued = @ \cup {Head(me.todo)},
                     ![w].broken = IF o = "raise"
                                   THEN @ \cup {Head(me.todo)} ELSE @,
                     ![w].since = IF rest = << >> THEN 0 ELSE @,
                     ![w].refreshes = IF rest = << >> THEN @ + 1 ELSE @,
                     ![w].pc = IF rest = << >> THEN "sleep" ELSE "refresh"]
    /\ UNCHANGED <<clock, jobs, sess, boto3>>
    /\ UNCHANGED stepwise
    /\ UNCHANGED aside

RefreshNext ==
    \/ Stop
    \/ \E w \in DOMAIN workers :
          \/ WorkerCheck(w)
          \/ \E d \in Outcomes : Upload(w, d)
          \/ /\ workers[w].pc = "session"
             /\ \E r \in SessionResults(sess) : RefreshSession(w, r)
          \/ \E o \in Outcomes : RefreshPipe(w, o)

RefreshSpec == RefreshInit /\ [][RefreshNext]_vars

\* C32: in the external-stage sink a failed pipe refresh (no session for the
\* round, or the statement of one pipe raising) leaves stats.errors and the
\* status as they were, the round still issues a refresh to every discovered
\* pipe, and the worker goes on to the cadence sleep before its next upload.
RoundComplete(me) ==
    /\ me.pc = "refresh" => me.issued \cup Range(me.todo) = Range(me.associated)
    /\ (me.pc # "refresh" /\ me.refreshes > 0)
          => me.issued = Range(me.associated)

FailedRefreshIsHarmless ==
    /\ [][\A w \in DOMAIN workers :
            LET me == workers[w]
                j == me.job
                failed ==
                   \/ \E r \in SessionResults(sess) :
                         r.res # "session" /\ RefreshSession(w, r)
                   \/ RefreshPipe(w, "raise")
            IN failed => /\ jobs'[j].stats.errors = jobs[j].stats.errors
                         /\ jobs'[j].status = jobs[j].status
                         /\ workers'[w].pc \in {"refresh", "sleep"}
                         /\ workers'[w].pc = "refresh"
                               => workers'[w].todo = Tail(me.todo)]_vars
    /\ [](\A w \in DOMAIN workers : RoundComplete(workers[w]))

\* a round in which one pipe's refresh raised was completed for both pipes,
\* and the worker has uploaded again since, with no error counted
UploadedAfterFailedRefresh ==
    \E w \in DOMAIN workers :
        LET me == workers[w] IN
        /\ me.broken # {} /\ me.broken # me.issued
        /\ me.issued = Range(AssociatedPipes)
        /\ me.refreshes > 0 /\ me.since > 0
        /\ jobs[me.job].stats.errors = 0
        /\ jobs[me.job].stats.files_written > REFRESH_EVERY_N_FILES

-----------------------------------------------------------------------------
(* The object-storage client of the two S3-backed workers *)

\* what the four calls of the client set-up answer: boto3.client('sts'),
\* sts_client.assume_role, boto3.client('s3') and s3_client.head_bucket
ClientAnswers == [sts : Outcomes, assume : Outcomes, s3 : Outcomes,
                  head : Outcomes]

\* the credentials a worker reads from its config and the environment; each
\* is a string, and the code tests whether it is empty
Credentials == [key : BOOLEAN, secret : BOOLEAN, role : BOOLEAN]

\* a set-up that uses the keys directly whenever both are given
BuildClientKeysFirst(cr, o) ==
    LET path == IF cr.key /\ cr.secret THEN "keys" ELSE "ambient"
        built == o.s3 = "ok"
    IN [path |-> path, built |-> built,
        heads |-> IF built THEN 1 ELSE 0,
        ok |-> built /\ o.head = "ok"]

\* The try block that builds s3_client: with both keys and a role ARN the
\* STS client, assume_role and an S3 client on the temporary credentials;
\* with both keys alone an S3 client on the keys; otherwise an S3 client on
\* the default chain; then head_bucket.  The first call that raises ends
\* the block.
BuildClient(cr, o) ==
    LET path == IF cr.key /\ cr.secret
                THEN IF cr.role THEN "assumed" ELSE "keys"
                ELSE "ambient"
        built == /\ path = "assumed" => (o.sts = "ok" /\ o.assume = "ok")
                 /\ o.s3 = "ok"
    IN [path |-> path, built |-> built,
        heads |-> IF built THEN 1 ELSE 0,
        ok |-> built /\ o.head = "ok"]

\* a worker of an S3-backed sink with its credentials; path is the branch
\* the client set-up took, heads the head_bucket calls made so far
ClientWorker(kind, meters, cr) ==
    [job |-> TheJob, kind |-> kind, meters |-> meters,
     source |-> "SYNTHETIC", fleet |-> 0, matched |-> FALSE, pc |-> "init",
     pipes |-> FALSE, since |-> 0, refreshes |-> 0, temp |-> 0,
     cr |-> cr, path |-> "none", built |-> FALSE, heads |-> 0]

\* start_stream has inserted the record of an S3-backed job and started its
\* worker
ClientInit ==
    /\ clock = 0
    /\ \E kind \in {"raw", "external"}, meters \in MeterChoices,
          cr \in Credentials :
          /\ jobs = [j \in {TheJob} |-> NewRecord(kind, 1)]
          /\ workers = <<ClientWorker(kind, meters, cr)>>
    /\ sess = "live"
    /\ boto3 \in BOOLEAN
    /\ provider = Started
    /\ lock = "free"
    /\ threads = [t \in Threads |-> "idle"]
    /\ reading = NoReading
    /\ config = NoConfig
    /\ tracking = NoTracking
    /\ ingest = NoIngest

\* the set-up of an S3-backed worker after its first registry write (and
\* the stage lookup): the client, then the fleet load; a client set-up that
\* raised fails the job and the worker returns
ClientSetup(w, o, r, c) ==
    LET me == workers[w]
        cl == BuildClient(me.cr, o)
        fleet == ResolveFleet(me.kind, me.meters, me.source, r.res, c)
    IN
    /\ me.pc = "setup"
    /\ me.kind \in {"raw", "external"}
    /\ r \in SessionResults(sess)
    /\ IF cl.ok
       THEN /\ sess' = r.s
            /\ workers' = [workers EXCEPT ![w].pc = "loop",
                                          ![w].fleet = fleet.size,
                                          ![w].matched = fleet.matched,
                                          ![w].path = cl.path,
                                          ![w].built = cl.built,
                                          ![w].heads = @ + cl.heads]
            /\ UNCHANGED jobs
       ELSE /\ jobs' = FailedWrite(jobs, me.job)
            /\ workers' = [workers EXCEPT ![w].pc = "done",
                                          ![w].path = cl.path,
                                          ![w].built = cl.built,
                                          ![w].heads = @ + cl.heads]
            /\ UNCHANGED sess
    /\ UNCHANGED <<clock, boto3>>
    /\ UNCHANGED stepwise
    /\ UNCHANGED aside

ClientStep(w) ==
    \/ WorkerInit(w)
    \/ /\ workers[w].pc = "stage"
       /\ \E r1 \in SessionResults(sess) :
             \E r2 \in SessionResults(r1.s), found \in BOOLEAN,
                pipes \in BOOLEAN :
                WorkerStage(w, r1, r2, found, pipes)
    \/ /\ workers[w].pc = "setup"
       /\ \E o \in ClientAnswers, r \in SessionResults(sess) :
             ClientSetup(w, o, r, NoCatalog)
    \/ WorkerCheck(w)
    \/ /\ workers[w].pc = "deliver"
       /\ \E r \in SessionResults(sess), d \in Outcomes :
             WorkerDeliver(w, r, d)

ClientNext == Stop \/ \E w \in DOMAIN workers : ClientStep(w)

ClientSpec == ClientInit /\ [][ClientNext]_vars

\* C33: the object-storage client is built by strict priority (both keys and
\* a role ARN: role assumption; both keys without a role ARN: the keys;
\* otherwise the default chain), head_bucket is called exactly once on the
\* client that was built, and a failure anywhere in the sequence sets the
\* job FAILED and ends the worker, which never tries again.
PathByPriority(me) ==
    /\ me.path = "assumed" <=> (me.cr.key /\ me.cr.secret /\ me.cr.role)
    /\ me.path = "keys" <=> (me.cr.key /\ me.cr.secret /\ ~me.cr.role)
    /\ me.path = "ambient" <=> ~(me.cr.key /\ me.cr.secret)

ClientBuiltByPriority ==
    /\ [](\A w \in DOMAIN workers :
            LET me == workers[w] IN
            /\ me.path # "none" => PathByPriority(me)
            /\ me.heads = (IF me.built THEN 1 ELSE 0)
            /\ InLoop(me.pc) => (me.built /\ me.path # "none"))
    /\ [][\A w \in DOMAIN workers, o \in ClientAnswers,
            r \in SessionResults(sess) :
            (~BuildClient(workers[w].cr, o).ok
                /\ ClientSetup(w, o, r, NoCatalog))
            => /\ jobs'[workers[w].job].status = "FAILED"
               /\ workers'[w].pc = "done"]_vars
    /\ [][\A w \in DOMAIN workers :
            workers[w].pc = "done" => workers'[w] = workers[w]]_vars

\* a job given both keys and a role ARN whose assume_role raised: no client
\* was built, no bucket checked, the job is FAILED and the worker returned
AssumeRoleFailedJob ==
    \E w \in DOMAIN workers :
        LET me == workers[w] IN
        /\ me.path = "assumed" /\ ~me.built /\ me.heads = 0
        /\ me.pc = "done"
        /\ jobs[me.job].status = "FAILED"
        /\ jobs[me.job].stats.errors = 1

-----------------------------------------------------------------------------
(* The INSERT statement of the table sink *)

\* Texts are sequences of characters.  The values of a reading, by Python
\* type: None, a bool, an int, a datetime, a str.
Quote == "'"

\* the strings of up to two characters over a letter and the quote
Strs == UNION {[1..n -> {"A", Quote}] : n \in 0..2}

Values ==
    {[type |-> "none"]}
       \cup [type : {"bool"}, v : BOOLEAN]
       \cup [type : {"int"}, v : {0, 7, 120}]
       \cup [type : {"datetime"},
             v : {[y |-> 2026, mo |-> 1, d |-> 5, h |-> 7, mi |-> 8,
                   s |-> 9]}]
       \cup [type : {"str"}, v : Strs]

DigitChar(n) ==
    CASE n = 0 -> "0" [] n = 1 -> "1" [] n = 2 -> "2" [] n = 3 -> "3"
      [] n = 4 -> "4" [] n = 5 -> "5" [] n = 6 -> "6" [] n = 7 -> "7"
      [] n = 8 -> "8" [] n = 9 -> "9"

\* str(v) of a non-negative int
RECURSIVE Str(_)
Str(n) ==
    IF n < 10 THEN <<DigitChar(n)>>
    ELSE Append(Str(n \div 10), DigitChar(n % 10))

\* a strftime field of the given width: zero-padded decimal
RECURSIVE Padded(_, _)
Padded(n, width) ==
    IF width = 0 THEN << >>
    ELSE Append(Padded(n \div 10, width - 1), DigitChar(n % 10))

\* v.strftime('%Y-%m-%d %H:%M:%S')
Strftime(t) ==
    Padded(t.y, 4) \o <<"-">> \o Padded(t.mo, 2) \o <<"-">> \o Padded(t.d, 2)
       \o <<" ">> \o Padded(t.h, 2) \o <<":">> \o Padded(t.mi, 2)
       \o <<":">> \o Padded(t.s, 2)

\* the isinstance chain that turns one value into SQL text: bool is tested
\* before int, and a str is put between quotes as it is
SqlText(v) ==
    CASE v.type = "none" -> <<"N", "U", "L", "L">>
      [] v.type = "bool" -> IF v.v THEN <<"T", "R", "U", "E">>
                            ELSE <<"F", "A", "L", "S", "E">>
      [] v.type = "int" -> Str(v.v)
      [] v.type = "datetime" -> <<Quote>> \o Strftime(v.v) \o <<Quote>>
      [] v.type = "str" -> <<Quote>> \o v.v \o <<Quote>>

\* values_list: one tuple per row of the batch, one text per column of the
\* first row
ValuesList(batch) ==
    [i \in DOMAIN batch |->
        [c \in DOMAIN batch[1] |-> SqlText(batch[i][c])]]

\* the columns of a reading followed here: two of them
Columns == 1..2

Batches == UNION {[1..n -> [Columns -> Values]] : n \in 1..RowsPerBatch}

\* the statement built for one batch
BuildInsert(batch) ==
    /\ ~reading.made
    /\ reading' = [made |-> TRUE, batch |-> batch,
                   values_list |-> ValuesList(batch)]
    /\ UNCHANGED <<clock, jobs, workers, sess, boto3, config, tracking,
                   ingest>>
    /\ UNCHANGED stepwise

InsertNext == ~reading.made /\ \E batch \in Batches : BuildInsert(batch)

InsertSpec == Init /\ [][InsertNext]_vars

\* C34: every value is serialized by its type (NULL; TRUE or FALSE; the
\* decimal text of a number; a quoted 'YYYY-MM-DD HH:MM:SS'; a quoted string
\* in which a quote of the value cannot end the literal), and the statement
\* has one tuple per reading with one value per column.
\* Where the SQL string literal opened by text[1] ends, reading from
\* position i: at the first quote that is not doubled; 0 when it never ends.
RECURSIVE LiteralEnd(_, _)
LiteralEnd(text, i) ==
    IF i > Len(text) THEN 0
    ELSE IF text[i] # Quote THEN LiteralEnd(text, i + 1)
    ELSE IF i < Len(text) /\ text[i + 1] = Quote
    THEN LiteralEnd(text, i + 2)
    ELSE i

WholeLiteral(text) ==
    /\ Len(text) >= 2
    /\ text[1] = Quote
    /\ LiteralEnd(text, 2) = Len(text)

SerializedAs(v, text) ==
    CASE v.type = "none" -> text = <<"N", "U", "L", "L">>
      [] v.type = "bool" -> text = IF v.v THEN <<"T", "R", "U", "E">>
                                   ELSE <<"F", "A", "L", "S", "E">>
      [] v.type = "int" -> text = Str(v.v)
      [] v.type = "datetime" ->
            /\ WholeLiteral(text)
            /\ Len(text) = 21
            /\ text[6] = "-" /\ text[9] = "-" /\ text[12] = " "
            /\ text[15] = ":" /\ text[18] = ":"
      [] v.type = "str" -> WholeLiteral(text)

ValuesSerializedByType ==
    reading.made
       => /\ Len(reading.values_list) = Len(reading.batch)
          /\ \A i \in DOMAIN reading.batch :
                /\ DOMAIN reading.values_list[i] = Columns
                /\ \A c \in Columns :
                      SerializedAs(reading.batch[i][c],
                                   reading.values_list[i][c])

-----------------------------------------------------------------------------
(* The identities of a fleet *)

\* service_area as the form gives it: a text of any length
Areas == {<<"T", "E", "X", "A", "S">>, <<"N", "Y">>}

\* service_area[:3]
Prefix3(area) == SubSeq(area, 1, Min(3, Len(area)))

\* f'{i:06d}': at least six digits, zero-padded
Format06d(i) == IF Len(Str(i)) <= 6 THEN Padded(i, 6) ELSE Str(i)

\* a numbering that repeats every ten meters
SyntheticIdByTens(i, area) ==
    <<"M", "T", "R", "-">> \o Prefix3(area) \o <<"-">> \o Format06d(i % 10)

\* f'MTR-{service_area[:3]}-{i:06d}'
SyntheticId(i, area) ==
    <<"M", "T", "R", "-">> \o Prefix3(area) \o <<"-">> \o Format06d(i)

\* the i-th synthetic meter, in the fields the readings depend on
SyntheticMeter(i, area) ==
    [meter_id |-> SyntheticId(i, area),
     customer_segment |-> IF i % 10 = 1 THEN "INDUSTRIAL"
                          ELSE IF i % 10 = 0 THEN "COMMERCIAL"
                          ELSE "RESIDENTIAL",
     production_matched |-> FALSE]

\* the k-th row of the catalog query, mapped into an identity
CatalogMeter(k) ==
    [meter_id |-> <<"P">> \o Str(k),
     customer_segment |-> "RESIDENTIAL",
     production_matched |-> TRUE]

\* meter_fleet after the load: the catalog's rows when any was loaded,
\* otherwise the synthetic meters 0 .. n-1
Identities(fleet, n, area) ==
    IF fleet.matched
    THEN [k \in 1..fleet.size |-> CatalogMeter(k)]
    ELSE [k \in 1..n |-> SyntheticMeter(k - 1, area)]

\* a worker that has made its first registry write and is about to load its
\* fleet
FleetWorker(kind, meters, source, area) ==
    [job |-> TheJob, kind |-> kind, meters |-> meters, source |-> source,
     fleet |-> 0, matched |-> FALSE, pc |-> "setup", pipes |-> FALSE,
     since |-> 0, refreshes |-> 0, temp |-> 0, area |-> area,
     identities |-> << >>]

FleetInit ==
    /\ clock = 0
    /\ \E kind \in Kinds, meters \in 0..MaxMeters, source \in Sources,
          area \in Areas :
          /\ jobs = [j \in {TheJob} |->
                       [thread |-> 1, status |-> "RUNNING", kind |-> kind,
                        stats |-> WorkerStats(kind)]]
          /\ workers = <<FleetWorker(kind, meters, source, area)>>
    /\ sess = "live"
    /\ boto3 = TRUE
    /\ provider = Started
    /\ lock = "free"
    /\ threads = [t \in Threads |-> "idle"]
    /\ reading = NoReading
    /\ config = NoConfig
    /\ tracking = NoTracking
    /\ ingest = NoIngest

\* the fleet load with the identities it leaves in meter_fleet
LoadFleet(w, r, c) ==
    LET me == workers[w]
        fleet == ResolveFleet(me.kind, me.meters, me.source, r.res, c)
    IN
    /\ me.pc = "setup"
    /\ r \in SessionResults(sess)
    /\ sess' = r.s
    /\ workers' = [workers EXCEPT
                     ![w].pc = "loop",
                     ![w].fleet = fleet.size,
                     ![w].matched = fleet.matched,
                     ![w].identities = Identities(fleet, me.meters, me.area)]
    /\ UNCHANGED <<clock, jobs, boto3>>
    /\ UNCHANGED stepwise
    /\ UNCHANGED aside

FleetNext ==
    \E w \in DOMAIN workers :
        /\ workers[w].pc = "setup"
        /\ \E r \in SessionResults(sess),
              c \in CatalogAnswers(workers[w].source) : LoadFleet(w, r, c)

FleetSpec == FleetInit /\ [][FleetNext]_vars

\* C35: the synthetic meter of index i has the id MTR-<first three
\* characters of the area>-<i in six zero-padded digits>, the segment
\* COMMERCIAL for i mod 10 = 0, INDUSTRIAL for i mod 10 = 1 and RESIDENTIAL
\* otherwise, and production_matched = false; the ids of a fleet are
\* pairwise distinct; every identity loaded from the catalog has
\* production_matched = true.
DigitValue(ch) == CHOOSE n \in 0..9 : DigitChar(n) = ch

IsDigit(ch) == \E n \in 0..9 : DigitChar(n) = ch

\* the number a text of digits denotes
RECURSIVE Decimal(_)
Decimal(text) ==
    IF text = << >> THEN 0
    ELSE 10 * Decimal(SubSeq(text, 1, Len(text) - 1))
            + DigitValue(text[Len(text)])

IsSyntheticId(id, i, area) ==
    LET p == Min(3, Len(area))
        digits == SubSeq(id, p + 6, Len(id))
    IN /\ Len(id) = p + 11
       /\ SubSeq(id, 1, 4) = <<"M", "T", "R", "-">>
       /\ \A k \in 1..p : id[4 + k] = area[k]
       /\ id[p + 5] = "-"
       /\ \A k \in DOMAIN digits : IsDigit(digits[k])
       /\ Decimal(digits) = i

SyntheticFleetIsIndexed ==
    \A w \in DOMAIN workers :
        LET me == workers[w]
            ids == me.identities
        IN me.pc = "loop"
           => IF me.matched
              THEN \A k \in DOMAIN ids : ids[k].production_matched
              ELSE /\ Len(ids) = me.meters
                   /\ \A k \in DOMAIN ids :
                         /\ IsSyntheticId(ids[k].meter_id, k - 1, me.area)
                         /\ ids[k].customer_segment =
                               (CASE (k - 1) % 10 = 0 -> "COMMERCIAL"
                                  [] (k - 1) % 10 = 1 -> "INDUSTRIAL"
                                  [] OTHER -> "RESIDENTIAL")
                         /\ ~ids[k].production_matched
                   /\ \A k, l \in DOMAIN ids :
                         k # l => ids[k].meter_id # ids[l].meter_id

\* a synthetic fleet long enough to hold the meters 0, 1, 10 and 11
FleetOfTwelve ==
    \E w \in DOMAIN workers :
        LET me == workers[w] IN
        /\ me.pc = "loop" /\ ~me.matched
        /\ Len(me.identities) >= 12
        /\ me.identities[11].customer_segment = "COMMERCIAL"
        /\ me.identities[12].customer_segment = "INDUSTRIAL"
        /\ me.identities[3].customer_segment = "RESIDENTIAL"

-----------------------------------------------------------------------------
(* SnowpipeStreamingClient *)

\* how one initialize() can go: everything works, the SDK import fails,
\* load_private_key() raises, the StreamingIngestClient constructor raises,
\* open_channel raises
InitOutcomes == {"ok", "import", "key", "client", "channel"}

\* len(rows) of a write_rows call
Lengths == 0..(RowsPerBatch + 1)

\* rows followed in one run
RowsCap == (RowsPerBatch + 1) * (MaxEvents + 1)

NoHolder == 0

\* a thread that is not inside write_rows; n, out and ret are kept from its
\* last call
NoCall == [pc |-> "idle", n |-> 0, got |-> 0, out |-> "-", ret |-> 0,
           calls |-> 0]

\* __init__: clients counts the StreamingIngestClient objects built so far,
\* channel is self._channel ("none" for None), appended the rows the
\* channels have taken, holder the thread inside `with self._lock`, last
\* how the last write_rows call ended.  ready is history: an initialize()
\* has succeeded and no close() was called since.
NewClient ==
    [built |-> TRUE, initialized |-> FALSE, clients |-> 0,
     channel |-> "none", ready |-> FALSE, rows_written |-> 0,
     appended |-> 0, holder |-> NoHolder,
     last |-> [out |-> "-", ret |-> 0],
     callers |-> [t \in Callers |-> NoCall]]

\* a close() that leaves the flag as it was
ClosedFlagKept(flag) == flag

\* self._initialized = False, the last statement of close()
ClosedFlag(flag) == FALSE

\* a lock that lets every thread in
CanAcquireAlways(holder) == TRUE

\* `with self._lock:` is entered when no thread holds the lock
CanAcquire(holder) == holder = NoHolder

StreamInit ==
    /\ clock = 0
    /\ jobs = [j \in {} |-> NewRecord("table", 0)]
    /\ workers = << >>
    /\ sess = "live"
    /\ boto3 = TRUE
    /\ provider = Started
    /\ lock = "free"
    /\ threads = [t \in Threads |-> "idle"]
    /\ reading = NoReading
    /\ config = NoConfig
    /\ tracking = NoTracking
    /\ ingest = NewClient

Elsewhere ==
    UNCHANGED <<clock, jobs, workers, sess, boto3, reading, config, tracking>>

\* initialize(): every exception is caught and gives False; the flag is set
\* only at the end of the try, and nothing resets it on failure
Initialize(o) ==
    /\ o \in {"ok", "channel"} => ingest.clients < MaxHandles
    /\ ingest' =
         CASE o = "ok" ->
                [ingest EXCEPT !.clients = @ + 1, !.channel = "open",
                               !.initialized = TRUE, !.ready = TRUE]
           [] o = "channel" -> [ingest EXCEPT !.clients = @ + 1]
           [] OTHER -> ingest
    /\ Elsewhere
    /\ UNCHANGED stepwise

\* write_rows(rows) from call to return, with n = len(rows) and o what
\* append_rows does
WriteRows(n, o) ==
    /\ ingest.appended + n <= RowsCap
    /\ ingest' =
         IF ~ingest.initialized
         THEN [ingest EXCEPT !.last = [out |-> "RuntimeError", ret |-> 0]]
         ELSE IF n = 0
         THEN [ingest EXCEPT !.last = [out |-> "returned", ret |-> 0]]
         ELSE IF o = "raise"
         THEN [ingest EXCEPT !.last = [out |-> "raised", ret |-> 0]]
         ELSE [ingest EXCEPT !.appended = @ + n,
                             !.rows_written = @ + n,
                             !.last = [out |-> "returned", ret |-> n]]
    /\ Elsewhere
    /\ UNCHANGED stepwise

\* close(): the channel's close and the client's close each in a try that
\* only logs (o is what the channel's close does), then the flag is cleared
CloseClient(o) ==
    /\ ingest' = [ingest EXCEPT
                    !.channel = IF @ = "open" /\ o = "ok" THEN "closed" ELSE @,
                    !.initialized = ClosedFlag(@),
                    !.ready = FALSE]
    /\ Elsewhere
    /\ UNCHANGED stepwise

StreamNext ==
    \/ \E o \in InitOutcomes : Initialize(o)
    \/ \E n \in Lengths, o \in Outcomes : WriteRows(n, o)
    \/ \E o \in Outcomes : CloseClient(o)

StreamSpec == StreamInit /\ [][StreamNext]_vars

\* write_rows statement by statement, for threads that call it side by side
\* on an initialized client
Writer(t) == ingest.callers[t]

\* thread t calls write_rows with a list of n rows
WriteCall(t, n) ==
    /\ Writer(t).pc = "idle"
    /\ Writer(t).calls < MaxEvents
    /\ ingest' = [ingest EXCEPT
                    !.callers[t] = [pc |-> "check", n |-> n, got |-> 0,
                                    out |-> "-", ret |-> 0,
                                    calls |-> Writer(t).calls + 1]]

\* the two tests in front of the lock
WriteCheck(t) ==
    /\ Writer(t).pc = "check"
    /\ ingest' =
         IF ~ingest.initialized
         THEN [ingest EXCEPT !.callers[t].pc = "idle",
                             !.callers[t].out = "RuntimeError"]
         ELSE IF Writer(t).n = 0
         THEN [ingest EXCEPT !.callers[t].pc = "idle",
                             !.callers[t].out = "returned"]
         ELSE [ingest EXCEPT !.callers[t].pc = "wait"]

\* with self._lock:
WriteAcquire(t) ==
    /\ Writer(t).pc = "wait"
    /\ CanAcquire(ingest.holder)
    /\ ingest' = [ingest EXCEPT !.holder = t, !.callers[t].pc = "append"]

\* self._channel.append_rows(...): when it raises the exception leaves the
\* with block, which releases the lock
WriteAppend(t, o) ==
    /\ Writer(t).pc = "append"
    /\ ingest' =
         IF o = "raise"
         THEN [ingest EXCEPT !.holder = NoHolder,
                             !.callers[t].pc = "idle",
                             !.callers[t].out = "raised"]
         ELSE [ingest EXCEPT !.appended = @ + Writer(t).n,
                             !.callers[t].pc = "read"]

\* self._rows_written += len(rows): the read of the attribute ...
WriteRead(t) ==
    /\ Writer(t).pc = "read"
    /\ ingest' = [ingest EXCEPT !.callers[t].got = ingest.rows_written,
                                !.callers[t].pc = "store"]

\* ... and the store of the sum; return len(rows) leaves the with block
WriteStore(t) ==
    /\ Writer(t).pc = "store"
    /\ ingest' = [ingest EXCEPT
                    !.rows_written = Writer(t).got + Writer(t).n,
                    !.holder = NoHolder,
                    !.callers[t].pc = "idle",
                    !.callers[t].out = "returned",
                    !.callers[t].ret = Writer(t).n]

WriterStep(t) ==
    /\ \/ \E n \in Lengths : WriteCall(t, n)
       \/ WriteCheck(t)
       \/ WriteAcquire(t)
       \/ \E o \in Outcomes : WriteAppend(t, o)
       \/ WriteRead(t)
       \/ WriteStore(t)
    /\ Elsewhere
    /\ UNCHANGED stepwise

\* the client after initialize() has returned True
WritersInit ==
    /\ clock = 0
    /\ jobs = [j \in {} |-> NewRecord("table", 0)]
    /\ workers = << >>
    /\ sess = "live"
    /\ boto3 = TRUE
    /\ provider = Started
    /\ lock = "free"
    /\ threads = [t \in Threads |-> "idle"]
    /\ reading = NoReading
    /\ config = NoConfig
    /\ tracking = NoTracking
    /\ ingest = [NewClient EXCEPT !.clients = 1, !.channel = "open",
                                  !.initialized = TRUE, !.ready = TRUE]

WritersNext == \E t \in Callers : WriterStep(t)

WritersSpec == WritersInit /\ [][WritersNext]_vars

\* C36: write_rows succeeds only between a successful initialize() and the
\* next close(): outside of it (never initialized, every initialize()
\* returned False, or closed) the call raises RuntimeError and leaves the
\* rows-written counter as it was; inside it an empty list returns 0 and
\* nothing is appended to the channel.
WritesOnlyWhenReady ==
    [][\A n \in Lengths, o \in Outcomes :
          WriteRows(n, o)
             => /\ ~ingest.ready
                      => /\ ingest'.last.out = "RuntimeError"
                         /\ ingest'.rows_written = ingest.rows_written
                         /\ ingest'.appended = ingest.appended
                /\ ingest'.last.out = "returned" => ingest.ready
                /\ (ingest.ready /\ n = 0)
                      => /\ ingest'.last = [out |-> "returned", ret |-> 0]
                         /\ ingest'.appended = ingest.appended
                         /\ ingest'.rows_written = ingest.rows_written]_vars

\* a client that wrote rows, was closed, and then refused a write
RefusedAfterClose ==
    /\ ingest.built
    /\ ingest.last.out = "RuntimeError"
    /\ ingest.rows_written > 0
    /\ ingest.channel = "closed"

\* C37: with threads calling write_rows side by side, the rows-written
\* counter equals the sum of the lengths of the lists whose append
\* succeeded (counting a thread between its append and its addition once it
\* has added): one thread at a time is inside the lock, a call that returns
\* returns the length of its list, and an append that raises re-raises and
\* adds nothing.
InLock(pc) == pc \in {"append", "read", "store"}

\* the rows appended by the thread in the lock and not yet added
Pending ==
    IF \E t \in Callers : Writer(t).pc \in {"read", "store"}
    THEN Writer(CHOOSE t \in Callers : Writer(t).pc \in {"read", "store"}).n
    ELSE 0

CounterIsSumOfAppends ==
    /\ [](/\ Cardinality({t \in Callers : InLock(Writer(t).pc)}) <= 1
          /\ ingest.rows_written + Pending = ingest.appended
          /\ ingest.holder = NoHolder
                => ingest.rows_written = ingest.appended
          /\ \A t \in Callers :
                /\ InLock(Writer(t).pc) => ingest.holder = t
                /\ (Writer(t).pc = "idle" /\ Writer(t).out = "returned")
                      => Writer(t).ret = Writer(t).n)
    /\ [][\A t \in Callers :
            WriteAppend(t, "raise")
               => /\ ingest'.rows_written = ingest.rows_written
                  /\ ingest'.appended = ingest.appended
                  /\ ingest'.callers[t].out = "raised"
                  /\ ingest'.holder = NoHolder]_vars

\* two threads have both written a non-empty list, one having waited for
\* the lock the other held
BothWritersCounted ==
    /\ ingest.built
    /\ \A t \in Callers :
          /\ Writer(t).pc = "idle" /\ Writer(t).out = "returned"
          /\ Writer(t).n > 0
    /\ ingest.rows_written = ingest.appended
    /\ ingest.rows_written > RowsPerBatch + 1

====
